---------------------------- MODULE Spec2Model ----------------------------
(***************************************************************************)
(* Model of src/app.py: the monthly ledger reconciliation engine of the    *)
(* billing validation tool (partner workbook + BASE workbook).             *)
(*                                                                         *)
(* Text is modelled by TLA+ strings, handled character by character with   *)
(* Len, SubSeq and \o, so that every textual operation of the code         *)
(* (str.replace, the `in` test, startswith, re.sub) is computed and not    *)
(* assumed.  A cell value is a record [t, n, s]: None, an integer or a     *)
(* string (formulas are strings starting with "=").  A worksheet is a      *)
(* dense grid, a sequence of rows each a sequence of cells, whose extent   *)
(* is openpyxl's max_row / max_column.  Formatting attributes of cells     *)
(* (copiar_estilo) carry no value and are not part of the state.           *)
(***************************************************************************)
EXTENDS Integers, Sequences, FiniteSets, TLC

VARIABLES
    pc,           \* position of the run / of the operation under study
    target_month, \* the month label MMM.YY of the run
    base_wb,      \* BASE workbook: sequence of [title, ws]
    parceiro_wb,  \* PARTNER workbook: sequence of [title, ws]
    ret,          \* values returned by the operations and locals kept by the run
    fpc,        \* formula templater: "in" | "one" | "two" | "off"
    formula,    \* the formula string given to atualizar_formula_linha
    linha1,     \* linha_nova of the first application
    out1,       \* result of the first application
    linha2,     \* linha_nova of the second application
    out2,       \* result of the second application, applied to out1
    arquivo_base,  \* the uploaded BASE file: the workbook it holds
    arquivo_nome,  \* the uploaded BASE file: its name (arquivo_base.name)
    session_state  \* st.session_state

fvars == <<fpc, formula, linha1, out1, linha2, out2>>

uvars == <<arquivo_base, arquivo_nome, session_state>>

svars == <<pc, target_month, base_wb, parceiro_wb, ret>>

vars == <<svars, fvars, uvars>>

----------------------------------------------------------------------------
(* Text primitives (Python str)                                            *)

At(s, i) == SubSeq(s, i, i)

UpperChars ==
    {"A","B","C","D","E","F","G","H","I","J","K","L","M",
     "N","O","P","Q","R","S","T","U","V","W","X","Y","Z"}

DigitChars == {"0","1","2","3","4","5","6","7","8","9"}

IsUpper(c) == c \in UpperChars

IsDigit(c) == c \in DigitChars

DigitOf(d) == At("0123456789", d + 1)

\* str(n) for an integer n; a row number is never negative in the program,
\* the sign is kept for completeness.
RECURSIVE NatToStr(_)
NatToStr(n) == IF n < 10 THEN DigitOf(n) ELSE NatToStr(n \div 10) \o DigitOf(n % 10)

IntToStr(n) == IF n < 0 THEN "-" \o NatToStr(-n) ELSE NatToStr(n)

\* int(s) for a text of digits.
RECURSIVE StrToNat(_)
StrToNat(s) ==
    IF s = "" THEN 0
    ELSE 10 * StrToNat(SubSeq(s, 1, Len(s) - 1))
           + (CHOOSE d \in 0..9 : DigitOf(d) = At(s, Len(s)))

StartsWith(s, p) == Len(s) >= Len(p) /\ SubSeq(s, 1, Len(p)) = p

\* sub in s
Contains(s, sub) ==
    \E i \in 1..(Len(s) - Len(sub) + 1) : SubSeq(s, i, i + Len(sub) - 1) = sub

\* Leftmost position p >= i where old occurs in s, 0 when there is none.
FirstMatch(s, i, old) ==
    LET ps == {p \in i..(Len(s) - Len(old) + 1) : SubSeq(s, p, p + Len(old) - 1) = old}
    IN  IF ps = {} THEN 0 ELSE CHOOSE p \in ps : \A q \in ps : p <= q

\* s.replace(old, new) for a non-empty old: the occurrences are taken from
\* the left and do not overlap.
RECURSIVE ReplaceFrom(_, _, _, _)
ReplaceFrom(s, i, old, new) ==
    LET p == FirstMatch(s, i, old)
    IN  IF p = 0 THEN SubSeq(s, i, Len(s))
        ELSE SubSeq(s, i, p - 1) \o new \o ReplaceFrom(s, p + Len(old), old, new)

Replace(s, old, new) == ReplaceFrom(s, 1, old, new)

----------------------------------------------------------------------------
(* atualizar_formula_linha: re.sub(r'([A-Z]+)(\d+)', coluna + linha_nova)  *)

\* Last index of the maximal run of characters of class cls starting at i
\* (i - 1 when s[i] is not of that class): the greedy + of the pattern.
RECURSIVE RunEnd(_, _, _)
RunEnd(s, i, cls) ==
    IF i <= Len(s) /\ At(s, i) \in cls THEN RunEnd(s, i + 1, cls) ELSE i - 1

\* Position p is the start of a match when scanning has reached it: an
\* upper-case letter whose maximal letter run is followed by a digit.
MatchAt(s, p) ==
    /\ IsUpper(At(s, p))
    /\ RunEnd(s, p, UpperChars) < Len(s)
    /\ IsDigit(At(s, RunEnd(s, p, UpperChars) + 1))

\* Leftmost match start at or after i, 0 when there is none.
NextMatch(s, i) ==
    LET ps == {p \in i..Len(s) : MatchAt(s, p)}
    IN  IF ps = {} THEN 0 ELSE CHOOSE p \in ps : \A q \in ps : p <= q

\* The scan of re.sub from position i: the text before the next match is
\* copied; at the match the letters are kept and the digit run is replaced
\* by linha_nova; the scan resumes after the match.
RECURSIVE SubstituirDe(_, _, _)
SubstituirDe(s, i, linha_nova) ==
    LET p == NextMatch(s, i)
        le == RunEnd(s, p, UpperChars)
        de == RunEnd(s, le + 1, DigitChars)
    IN  IF p = 0 THEN SubSeq(s, i, Len(s))
        ELSE SubSeq(s, i, le) \o IntToStr(linha_nova)
               \o SubstituirDe(s, de + 1, linha_nova)

\* Plausible slip: the pattern ([A-Z]+)(\d) replaces one digit, not the run.
RECURSIVE SubstituirUmDigito(_, _, _)
SubstituirUmDigito(s, i, linha_nova) ==
    LET p == NextMatch(s, i)
        le == RunEnd(s, p, UpperChars)
    IN  IF p = 0 THEN SubSeq(s, i, Len(s))
        ELSE SubSeq(s, i, le) \o IntToStr(linha_nova)
               \o SubstituirUmDigito(s, le + 2, linha_nova)

atualizar_formula_linha_um_digito(f, linha_nova) == SubstituirUmDigito(f, 1, linha_nova)

atualizar_formula_linha(f, linha_nova) == SubstituirDe(f, 1, linha_nova)

----------------------------------------------------------------------------
(* Cells and worksheets (openpyxl)                                         *)

None == [t |-> "none", n |-> 0, s |-> ""]

IntV(n) == [t |-> "int", n |-> n, s |-> ""]

StrV(s) == [t |-> "str", n |-> 0, s |-> s]

\* Python truthiness of a cell value: None, 0 and "" are falsy.
Truthy(v) == (v.t = "int" /\ v.n # 0) \/ (v.t = "str" /\ v.s # "")

\* str(value) of a cell value that is not None.
StrOf(v) == IF v.t = "int" THEN IntToStr(v.n) ELSE v.s

MaxRow(ws) == Len(ws)

MaxCol(ws) == Len(ws[1])

NoneRow(w) == [c \in 1..w |-> None]

EmptySheet == <<NoneRow(1)>>

Max2(a, b) == IF a >= b THEN a ELSE b

\* ws.cell(row, column) creates the cell when it does not exist: the extent
\* of the sheet grows to hold it.
Grow(ws, r, c) ==
    LET w == Max2(MaxCol(ws), c)
        h == Max2(MaxRow(ws), r)
    IN  IF r <= MaxRow(ws) /\ c <= MaxCol(ws) THEN ws
        ELSE [i \in 1..h |->
                [j \in 1..w |->
                   IF i <= MaxRow(ws) /\ j <= MaxCol(ws) THEN ws[i][j] ELSE None]]

\* ws.cell(row, column).value, without creating the cell.
Value(ws, r, c) ==
    IF r >= 1 /\ r <= MaxRow(ws) /\ c >= 1 /\ c <= MaxCol(ws) THEN ws[r][c] ELSE None

\* ws.cell(row, column).value = v
SetValue(ws, r, c, v) == [Grow(ws, r, c) EXCEPT ![r][c] = v]

\* ws.cell(row, column, value=v): openpyxl assigns the value only when it is
\* not None; the cell is created in both cases.
CellWrite(ws, r, c, v) == IF v = None THEN Grow(ws, r, c) ELSE SetValue(ws, r, c, v)

\* The writes <<column, value>> of ws.cell(row=r, column, value), made in
\* order on row r: every cell named is created, and a cell ends with the
\* last value written to it that is not None, or keeps its value.
WriteCells(ws, r, writes) ==
    LET cols == {writes[k][1] : k \in 1..Len(writes)}
        g == IF cols = {} THEN ws
             ELSE Grow(ws, r, CHOOSE c \in cols : \A d \in cols : d <= c)
        set(c) == {k \in 1..Len(writes) : writes[k][1] = c /\ writes[k][2] # None}
    IN  [g EXCEPT ![r] =
           [c \in 1..MaxCol(g) |->
              IF set(c) = {} THEN g[r][c]
              ELSE writes[CHOOSE k \in set(c) : \A j \in set(c) : j <= k][2]]]

\* A workbook is a sequence of [title, ws]; wb[name] and name in wb.sheetnames.
SheetNames(wb) == {wb[i].title : i \in 1..Len(wb)}

SheetIndex(wb, name) == CHOOSE i \in 1..Len(wb) : wb[i].title = name

Sheet(wb, name) == wb[SheetIndex(wb, name)].ws

PutSheet(wb, name, ws) == [wb EXCEPT ![SheetIndex(wb, name)].ws = ws]

----------------------------------------------------------------------------
(* copiar_producao_para_base                                               *)

\* Last row of the destination whose column A holds a value, 1 when none.
LastRowBase(ws_destino) ==
    LET rows == {r \in 1..MaxRow(ws_destino) : Value(ws_destino, r, 1) # None}
    IN  IF rows = {} THEN 1 ELSE CHOOSE r \in rows : \A q \in rows : q <= r

\* The cells written for one source row: A-G copied, H injected, H-J of the
\* source shifted to I-K.
ProducaoWrites(ws_origem, source_row, new_row) ==
    [c \in 1..7 |-> <<c, Value(ws_origem, source_row, c)>>]
      \o << <<8, StrV("=F" \o IntToStr(new_row))>> >>
      \o [k \in 1..3 |-> <<k + 8, Value(ws_origem, source_row, k + 7)>>]

\* The loop over the source rows from source_row on; it ends at the sheet's
\* last row or at the first row whose column A is empty.
\* Plausible slip for the loop of copiar_producao_para_base: a source row
\* with an empty column A is skipped and the copy goes on below it.
RECURSIVE CopiarProducaoSaltando(_, _, _, _, _)
CopiarProducaoSaltando(ws_origem, ws_destino, source_row, new_row, linhas_copiadas) ==
    IF source_row > MaxRow(ws_origem)
    THEN [ws |-> ws_destino, linhas_copiadas |-> linhas_copiadas]
    ELSE IF Value(ws_origem, source_row, 1) = None
    THEN CopiarProducaoSaltando(ws_origem, ws_destino, source_row + 1, new_row,
                                linhas_copiadas)
    ELSE CopiarProducaoSaltando(
           ws_origem,
           WriteCells(ws_destino, new_row, ProducaoWrites(ws_origem, source_row, new_row)),
           source_row + 1, new_row + 1, linhas_copiadas + 1)

RECURSIVE CopiarProducaoDe(_, _, _, _, _)
CopiarProducaoDe(ws_origem, ws_destino, source_row, new_row, linhas_copiadas) ==
    IF source_row > MaxRow(ws_origem) \/ Value(ws_origem, source_row, 1) = None
    THEN [ws |-> ws_destino, linhas_copiadas |-> linhas_copiadas]
    ELSE CopiarProducaoDe(
           ws_origem,
           WriteCells(ws_destino, new_row, ProducaoWrites(ws_origem, source_row, new_row)),
           source_row + 1, new_row + 1, linhas_copiadas + 1)

copiar_producao_para_base(ws_origem, ws_destino) ==
    CopiarProducaoDe(ws_origem, ws_destino, 2, LastRowBase(ws_destino) + 1, 0)

----------------------------------------------------------------------------
(* Month sheet stage: limpar_dados_worksheet,                              *)
(* inserir_dados_colunas_especificas, aplicar_regras_colunas_n_x           *)

UpperStr == "ABCDEFGHIJKLMNOPQRSTUVWXYZ"

LowerStr == "abcdefghijklmnopqrstuvwxyz"

LowerChar(c) ==
    IF IsUpper(c) THEN At(LowerStr, CHOOSE i \in 1..26 : At(UpperStr, i) = c) ELSE c

\* s.lower()
RECURSIVE Lower(_)
Lower(s) == IF s = "" THEN "" ELSE LowerChar(At(s, 1)) \o Lower(SubSeq(s, 2, Len(s)))

\* limpar_dados_worksheet: every cell of rows linha_inicial..max_row gets the
\* value None; the cells stay, so the extent of the sheet is unchanged.
limpar_dados_worksheet(ws, manter_linha_1) ==
    LET linha_inicial == IF manter_linha_1 THEN 2 ELSE 1
    IN  [r \in 1..MaxRow(ws) |->
           [c \in 1..MaxCol(ws) |-> IF r >= linha_inicial THEN None ELSE ws[r][c]]]

\* A row of iter_rows(values_only=True) that holds no value.
AllNone(row) == \A c \in 1..Len(row) : row[c] = None

Min2(a, b) == IF a <= b THEN a ELSE b

\* The loop of inserir_dados_colunas_especificas over the source rows from
\* source_row on: rows without any value are skipped, the others are written
\* to consecutive destination rows, columns col_inicio..min(col_fim, width).
RECURSIVE InserirDadosDe(_, _, _, _, _, _, _)
InserirDadosDe(ws_origem, ws_destino, col_inicio, col_fim, source_row, linha_destino, linhas_copiadas) ==
    IF source_row > MaxRow(ws_origem)
    THEN [ws |-> ws_destino, linhas_copiadas |-> linhas_copiadas]
    ELSE IF AllNone(ws_origem[source_row])
    THEN InserirDadosDe(ws_origem, ws_destino, col_inicio, col_fim, source_row + 1,
                        linha_destino, linhas_copiadas)
    ELSE LET last == Min2(col_fim, MaxCol(ws_origem))
             writes == [k \in 1..(last - col_inicio + 1) |->
                          <<col_inicio + k - 1,
                            ws_origem[source_row][col_inicio + k - 1]>>]
         IN  InserirDadosDe(ws_origem, WriteCells(ws_destino, linha_destino, writes),
                            col_inicio, col_fim, source_row + 1,
                            linha_destino + 1, linhas_copiadas + 1)

inserir_dados_colunas_especificas(ws_origem, ws_destino, col_inicio, col_fim, linha_destino_inicio) ==
    InserirDadosDe(ws_origem, ws_destino, col_inicio, col_fim, 2,
                   linha_destino_inicio, 0)

\* Last row of the unbroken run of non-empty column-A cells that starts at
\* linha_inicio; linha_inicio - 1 when that cell is empty.
RECURSIVE UltimaLinhaRegras(_, _)
UltimaLinhaRegras(ws, row) ==
    IF row <= MaxRow(ws) /\ Value(ws, row, 1) # None
    THEN UltimaLinhaRegras(ws, row + 1)
    ELSE row - 1

\* MOMENTO A: columns N, O, P of rows row..ultima_linha.
RECURSIVE MomentoA(_, _, _, _)
MomentoA(ws, row, ultima_linha, mes_faturado) ==
    IF row > ultima_linha THEN ws
    ELSE MomentoA(
           WriteCells(ws, row,
             << <<14, StrV(mes_faturado)>>,
                <<15, StrV("=VLOOKUP(A" \o IntToStr(row) \o ",'BASE'!A:H,8,0)")>>,
                <<16, None>> >>),
           row + 1, ultima_linha, mes_faturado)

\* ccbs_unicos: the values of ccbs_todos in order of first appearance.
RECURSIVE Unicos(_, _)
Unicos(ccbs_todos, vistos) ==
    IF ccbs_todos = <<>> THEN <<>>
    ELSE IF Head(ccbs_todos) \in vistos
         THEN Unicos(Tail(ccbs_todos), vistos)
         ELSE <<Head(ccbs_todos)>>
                \o Unicos(Tail(ccbs_todos), vistos \cup {Head(ccbs_todos)})

ccbs_unicos_de(ccbs_todos) == Unicos(ccbs_todos, {})

\* MOMENTO B: columns Q-X, one row per unique CCB from row_destino on.
RECURSIVE MomentoB(_, _, _)
MomentoB(ws, ccbs, row_destino) ==
    IF ccbs = <<>> THEN ws
    ELSE LET q == "Q" \o IntToStr(row_destino)
         IN  MomentoB(
               WriteCells(ws, row_destino,
                 << <<17, Head(ccbs)>>,
                    <<18, StrV("=VLOOKUP(" \o q \o ",'BASE'!A:K,11,0)")>>,
                    <<19, StrV("=SUMIF(A:A," \o q \o ",L:L)")>>,
                    <<20, StrV("=VLOOKUP(" \o q \o ",'BASE'!A:H,8,0)")>>,
                    <<21, None>>, <<22, None>>, <<23, None>>, <<24, None>> >>),
               Tail(ccbs), row_destino + 1)

aplicar_regras_colunas_n_x(ws, mes, linha_inicio) ==
    LET mes_faturado == Lower(Replace(mes, ".", "-"))
        ultima_linha == UltimaLinhaRegras(ws, linha_inicio)
        ws_a == MomentoA(ws, linha_inicio, ultima_linha, mes_faturado)
        rows == SelectSeq([k \in 1..(ultima_linha - linha_inicio + 1) |-> linha_inicio + k - 1],
                          LAMBDA r : Value(ws_a, r, 1) # None)
        ccbs_todos == [k \in 1..Len(rows) |-> Value(ws_a, rows[k], 1)]
        ccbs_unicos == ccbs_unicos_de(ccbs_todos)
    IN  IF ultima_linha < linha_inicio
        THEN [ws |-> ws, linhas_n_o |-> 0, linhas_q_w |-> 0, ccbs_unicos |-> 0]
        ELSE [ws |-> MomentoB(ws_a, ccbs_unicos, linha_inicio),
              linhas_n_o |-> ultima_linha - linha_inicio + 1,
              linhas_q_w |-> Len(ccbs_unicos),
              ccbs_unicos |-> Len(ccbs_unicos)]

----------------------------------------------------------------------------
(* Helpers of the BASE update: last row, header lookup, month columns      *)

\* encontrar_ultima_linha: the last row holding any value, 0 when none does.
encontrar_ultima_linha(ws) ==
    LET rows == {r \in 1..MaxRow(ws) : ~AllNone(ws[r])}
    IN  IF rows = {} THEN 0 ELSE CHOOSE r \in rows : \A q \in rows : q <= r

\* Plausible slip for encontrar_coluna_por_header: headers compared without
\* regard to case.
encontrar_coluna_por_header_sem_caixa(ws, nome_header) ==
    LET cols == {c \in 1..MaxCol(ws) :
                   ws[1][c].t = "str" /\ Lower(ws[1][c].s) = Lower(nome_header)}
    IN  IF cols = {} THEN 0 ELSE CHOOSE c \in cols : \A d \in cols : c <= d

\* encontrar_coluna_por_header: the first column whose row-1 value is
\* nome_header; 0 stands for the None returned when there is none.
encontrar_coluna_por_header(ws, nome_header) ==
    LET cols == {c \in 1..MaxCol(ws) : ws[1][c] = StrV(nome_header)}
    IN  IF cols = {} THEN 0 ELSE CHOOSE c \in cols : \A d \in cols : c <= d

\* openpyxl get_column_letter, columns 1..702.
get_column_letter(n) ==
    IF n <= 26 THEN At(UpperStr, n)
    ELSE At(UpperStr, (n - 1) \div 26) \o At(UpperStr, ((n - 1) % 26) + 1)

\* Plausible slip for encontrar_colunas_meses: every column between P and
\* DATA counted, whatever its header.
encontrar_colunas_meses_sem_filtro(ws_base) ==
    LET d == encontrar_coluna_por_header(ws_base, "DATA")
        col_data_index == IF d = 0 THEN MaxCol(ws_base) + 1 ELSE d
    IN  [k \in 1..Max2(col_data_index - 17, 0) |->
           [nome |-> IF Value(ws_base, 1, 16 + k) = None THEN ""
                     ELSE StrOf(Value(ws_base, 1, 16 + k)),
            indice |-> 16 + k,
            letra |-> get_column_letter(16 + k)]]

\* encontrar_colunas_meses: the columns between P and DATA whose header is
\* truthy, in column order.
encontrar_colunas_meses(ws_base) ==
    LET d == encontrar_coluna_por_header(ws_base, "DATA")
        col_data_index == IF d = 0 THEN MaxCol(ws_base) + 1 ELSE d
        cols == SelectSeq([k \in 1..Max2(col_data_index - 17, 0) |-> 16 + k],
                          LAMBDA c : Truthy(Value(ws_base, 1, c)))
    IN  [k \in 1..Len(cols) |->
           [nome |-> StrOf(Value(ws_base, 1, cols[k])),
            indice |-> cols[k],
            letra |-> get_column_letter(cols[k])]]

\* ws.insert_cols(idx): the cells of columns idx.. move one column right;
\* nothing moves when idx is beyond the sheet.
InsertCols(ws, idx) ==
    IF idx > MaxCol(ws) THEN ws
    ELSE [r \in 1..MaxRow(ws) |->
            [c \in 1..(MaxCol(ws) + 1) |->
               IF c < idx THEN ws[r][c] ELSE IF c = idx THEN None ELSE ws[r][c - 1]]]

FormulaCountif(month, row) ==
    "=COUNTIF('" \o month \o "'!A:A,BASE!A" \o IntToStr(row) \o ")"

\* Plausible slip for inserir_coluna_mes: the column is inserted at the
\* last month column instead of after it.
inserir_coluna_mes_no_ultimo(ws_base, mes, colunas_meses) ==
    LET pos_insercao == IF colunas_meses # <<>>
                        THEN colunas_meses[Len(colunas_meses)].indice ELSE 17
        w1 == CellWrite(InsertCols(ws_base, pos_insercao), 1, pos_insercao, StrV(mes))
        ultima_linha == encontrar_ultima_linha(w1)
        w2 == [r \in 1..MaxRow(w1) |->
                 IF r >= 2 /\ r <= ultima_linha
                 THEN [w1[r] EXCEPT ![pos_insercao] = StrV(FormulaCountif(mes, r))]
                 ELSE w1[r]]
    IN  [ws |-> w2,
         col |-> [nome |-> mes, indice |-> pos_insercao,
                  letra |-> get_column_letter(pos_insercao)]]

\* inserir_coluna_mes: always inserts a column after the last month column
\* (at Q when there is none), heads it target_month and fills COUNTIF down
\* to the last row holding any value.
inserir_coluna_mes(ws_base, mes, colunas_meses) ==
    LET pos_insercao == IF colunas_meses # <<>>
                        THEN colunas_meses[Len(colunas_meses)].indice + 1 ELSE 17
        w1 == CellWrite(InsertCols(ws_base, pos_insercao), 1, pos_insercao, StrV(mes))
        ultima_linha == encontrar_ultima_linha(w1)
        w2 == [r \in 1..MaxRow(w1) |->
                 IF r >= 2 /\ r <= ultima_linha
                 THEN [w1[r] EXCEPT ![pos_insercao] = StrV(FormulaCountif(mes, r))]
                 ELSE w1[r]]
    IN  [ws |-> w2,
         col |-> [nome |-> mes, indice |-> pos_insercao,
                  letra |-> get_column_letter(pos_insercao)]]

----------------------------------------------------------------------------
(* aplicar_formulas_dinamicas                                              *)

\* Plausible slip for UltimaLinhaDinamicas: max_row taken as the last row.
UltimaLinhaMaxRow(ws_base) == MaxRow(ws_base)

\* The scan for the last row with a value in column A, from max_row down;
\* it stops at row 1.
UltimaLinhaDinamicas(ws_base) ==
    LET rows == {r \in 2..MaxRow(ws_base) : Value(ws_base, r, 1) # None}
    IN  IF rows = {} THEN 1 ELSE CHOOSE r \in rows : \A q \in rows : q <= r

\* str(cell.value) if cell.value else ""
TextoCelula(v) == IF Truthy(v) THEN StrOf(v) ELSE ""

TermoL(mes) == "NOT(ISERROR(VLOOKUP(A2,'" \o mes \o "'!A:A,1,0)))"

\* Plausible slip for nova_formula_l: the new term goes first in the chain.
nova_formula_l_no_inicio(formula_l_base, target_month_sheet) ==
    LET formula_l_limpa == Replace(formula_l_base, ";", ",")
    IN  IF ~StartsWith(formula_l_limpa, "=")
        THEN "=IF(OR(" \o TermoL(target_month_sheet) \o "),\"Sim\",\"Não\")"
        ELSE IF ~Contains(formula_l_limpa, target_month_sheet)
                /\ Contains(formula_l_limpa, "OR(")
        THEN Replace(formula_l_limpa, "OR(", "OR(" \o TermoL(target_month_sheet) \o ",")
        ELSE formula_l_limpa

\* Column L template: created when row 2 holds no formula, else extended
\* before the marker ),"Sim" when the month is not named in it and the
\* marker is there, else left as it is.
nova_formula_l(formula_l_base, target_month_sheet) ==
    LET formula_l_limpa == Replace(formula_l_base, ";", ",")
        marcador_l == "),\"Sim\""
        novo_trecho_l == "," \o TermoL(target_month_sheet)
    IN  IF ~StartsWith(formula_l_limpa, "=")
        THEN "=IF(OR(" \o TermoL(target_month_sheet) \o "),\"Sim\",\"Não\")"
        ELSE IF ~Contains(formula_l_limpa, target_month_sheet)
                /\ Contains(formula_l_limpa, marcador_l)
        THEN Replace(formula_l_limpa, marcador_l, novo_trecho_l \o marcador_l)
        ELSE formula_l_limpa

\* Column M template: the bare fallback when row 2 holds no formula; then,
\* whatever the first test gave, the text read from row 2 is extended
\* when the month is not named in it and it holds the fallback literal.
nova_formula_m(formula_m_base, target_month_sheet) ==
    LET formula_m_limpa == Replace(formula_m_base, ";", ",")
        marcador_m == "\"Pendente de pagamento\""
        trecho_novo_m == "IFERROR(VLOOKUP(A2,'" \o target_month_sheet \o "'!A:N,14,0), "
    IN  IF ~Contains(formula_m_limpa, target_month_sheet)
           /\ Contains(formula_m_limpa, marcador_m)
        THEN Replace(formula_m_limpa, marcador_m, trecho_novo_m \o marcador_m) \o ")"
        ELSE IF ~StartsWith(formula_m_limpa, "=")
        THEN "=\"Pendente de pagamento\""
        ELSE formula_m_limpa

\* Column N template: created when row 2 holds no formula, else a COUNTIF
\* term is added at the end when the month is not named in it.
nova_formula_n(formula_n_base, target_month_sheet) ==
    LET formula_n_limpa == Replace(formula_n_base, ";", ",")
        countif == "COUNTIF('" \o target_month_sheet \o "'!A:A,BASE!A2)"
    IN  IF ~StartsWith(formula_n_limpa, "=") THEN "=" \o countif
        ELSE IF ~Contains(formula_n_limpa, target_month_sheet)
        THEN formula_n_limpa \o "+" \o countif
        ELSE formula_n_limpa

\* aplicar_formulas_dinamicas(ws_base, colunas_meses, base_wb); base_wb is
\* not used by the code.  Returns the sheet and linhas_processadas.
aplicar_formulas_dinamicas(ws_base, colunas_meses, wb) ==
    LET ultima_linha == UltimaLinhaDinamicas(ws_base)
    IN  IF ultima_linha < 2 \/ colunas_meses = <<>>
        THEN [ws |-> ws_base, linhas_processadas |-> 0]
        ELSE
          LET target_month_sheet == colunas_meses[Len(colunas_meses)].nome
              g == Grow(ws_base, ultima_linha, 14)
              f_l == nova_formula_l(TextoCelula(g[2][12]), target_month_sheet)
              f_m == nova_formula_m(TextoCelula(g[2][13]), target_month_sheet)
              f_n == nova_formula_n(TextoCelula(g[2][14]), target_month_sheet)
              linha(row) == "A" \o IntToStr(row)
          IN  [ws |-> [row \in 1..MaxRow(g) |->
                         IF row >= 2 /\ row <= ultima_linha
                         THEN [g[row] EXCEPT ![12] = StrV(Replace(f_l, "A2", linha(row))),
                                             ![13] = StrV(Replace(f_m, "A2", linha(row))),
                                             ![14] = StrV(Replace(f_n, "A2", linha(row)))]
                         ELSE g[row]],
               linhas_processadas |-> ultima_linha - 1]

----------------------------------------------------------------------------
(* aplicar_formulas_estaticas, atualizar_aba_base                          *)

FormulaO(row) == "=N" \o IntToStr(row) \o "/E" \o IntToStr(row)

FormulaP(row) == "=E" \o IntToStr(row) \o "-N" \o IntToStr(row)

FormulaData(row) == "=TEXT(F" \o IntToStr(row) \o ",\"dd/mm/aaaa\")"

\* Plausible slip for aplicar_formulas_estaticas: the formulas are filled
\* from row 2, over the historical rows.
aplicar_formulas_estaticas_desde_2(ws_base, linha_inicio) ==
    LET ultima_linha == encontrar_ultima_linha(ws_base)
        col_data_index == encontrar_coluna_por_header(ws_base, "DATA")
    IN  IF col_data_index = 0
        THEN [ok |-> FALSE, ws |-> ws_base, linhas_processadas |-> 0]
        ELSE IF 2 > ultima_linha
        THEN [ok |-> TRUE, ws |-> ws_base, linhas_processadas |-> 0]
        ELSE
          LET g == Grow(ws_base, ultima_linha, Max2(16, col_data_index))
          IN  [ok |-> TRUE,
               ws |-> [row \in 1..MaxRow(g) |->
                         IF row >= 2 /\ row <= ultima_linha
                         THEN [g[row] EXCEPT ![15] = StrV(FormulaO(row)),
                                             ![16] = StrV(FormulaP(row)),
                                             ![col_data_index] = StrV(FormulaData(row))]
                         ELSE g[row]],
               linhas_processadas |-> ultima_linha - 1]

\* aplicar_formulas_estaticas: ok is FALSE for the ValueError raised when
\* no column is headed DATA.
aplicar_formulas_estaticas(ws_base, linha_inicio) ==
    LET ultima_linha == encontrar_ultima_linha(ws_base)
        col_data_index == encontrar_coluna_por_header(ws_base, "DATA")
    IN  IF col_data_index = 0
        THEN [ok |-> FALSE, ws |-> ws_base, linhas_processadas |-> 0]
        ELSE IF linha_inicio > ultima_linha
        THEN [ok |-> TRUE, ws |-> ws_base, linhas_processadas |-> 0]
        ELSE
          LET g == Grow(ws_base, ultima_linha, Max2(16, col_data_index))
          IN  [ok |-> TRUE,
               ws |-> [row \in 1..MaxRow(g) |->
                         IF row >= linha_inicio /\ row <= ultima_linha
                         THEN [g[row] EXCEPT ![15] = StrV(FormulaO(row)),
                                             ![16] = StrV(FormulaP(row)),
                                             ![col_data_index] = StrV(FormulaData(row))]
                         ELSE g[row]],
               linhas_processadas |-> ultima_linha - linha_inicio + 1]

\* atualizar_aba_base(base_wb, parceiro_wb, target_month, linha_inicio_append)
atualizar_aba_base(wb, pwb, mes, linha_inicio_append) ==
    LET ws_base == Sheet(wb, "BASE")
        colunas_meses == encontrar_colunas_meses(ws_base)
        ins == inserir_coluna_mes(ws_base, mes, colunas_meses)
        todas == Append(colunas_meses, ins.col)
        din == aplicar_formulas_dinamicas(ins.ws, todas, wb)
        est == aplicar_formulas_estaticas(din.ws, linha_inicio_append)
    IN  [ok |-> est.ok,
         wb |-> PutSheet(wb, "BASE", est.ws),
         coluna_mes_inserida |-> mes,
         abas_meses_encontradas |-> [k \in 1..Len(todas) |-> todas[k].nome],
         linhas_formulas_aplicadas |-> din.linhas_processadas,
         linhas_novas_estaticas |-> est.linhas_processadas]

----------------------------------------------------------------------------
(* Sheet validation, the template clone (ETAPA 3), the delinquency filter  *)

\* The first name of the list abas that is not a sheet of wb, "" when all
\* are there.
PrimeiraFaltante(abas, wb) ==
    LET faltam == {k \in 1..Len(abas) : abas[k] \notin SheetNames(wb)}
    IN  IF faltam = {} THEN "" ELSE abas[CHOOSE k \in faltam : \A j \in faltam : k <= j]

MensagemValida == "Todas as abas necessárias estão presentes (incluindo template JAN.26)"

\* Plausible slip for validar_abas_necessarias: the template JAN.26 is not
\* among the sheets required of the BASE file.
validar_abas_necessarias_sem_template(pwb, wb) ==
    LET fp == PrimeiraFaltante(<<"Parcelas Pagas", "Produção">>, pwb)
        fb == PrimeiraFaltante(<<"BASE", "INADIMPLENTES">>, wb)
    IN  IF fp # ""
        THEN [valido |-> FALSE,
              mensagem |-> "Aba '" \o fp \o "' não encontrada no arquivo PARCEIRO"]
        ELSE IF fb # ""
        THEN [valido |-> FALSE,
              mensagem |-> "Aba '" \o fb \o "' não encontrada no arquivo BASE"]
        ELSE [valido |-> TRUE, mensagem |-> MensagemValida]

\* validar_abas_necessarias: (sucesso, mensagem); the message names the
\* first missing sheet, the PARCEIRO file being looked at first.
validar_abas_necessarias(pwb, wb) ==
    LET fp == PrimeiraFaltante(<<"Parcelas Pagas", "Produção">>, pwb)
        fb == PrimeiraFaltante(<<"BASE", "INADIMPLENTES", "JAN.26">>, wb)
    IN  IF fp # ""
        THEN [valido |-> FALSE,
              mensagem |-> "Aba '" \o fp \o "' não encontrada no arquivo PARCEIRO"]
        ELSE IF fb # ""
        THEN [valido |-> FALSE,
              mensagem |-> "Aba '" \o fb \o "' não encontrada no arquivo BASE"]
        ELSE [valido |-> TRUE, mensagem |-> MensagemValida]

validar_template_jan26(workbook) == "JAN.26" \in SheetNames(workbook)

\* del wb[name]
DelSheet(wb, name) == SelectSeq(wb, LAMBDA e : e.title # name)

\* The numbers found by re.findall(r"(value)(\d*),?", s, re.IGNORECASE) from
\* position i of the title s on: at each occurrence of value, whatever the
\* case of its letters, the digits that follow it, when there are any.
RECURSIVE Contagens(_, _, _)
Contagens(s, value, i) ==
    IF i + Len(value) - 1 > Len(s) THEN {}
    ELSE IF Lower(SubSeq(s, i, i + Len(value) - 1)) = Lower(value)
         THEN LET e == RunEnd(s, i + Len(value), DigitChars)
                  idx == SubSeq(s, i + Len(value), e)
              IN  (IF idx = "" THEN {} ELSE {StrToNat(idx)})
                    \cup Contagens(s, value, e + 1)
         ELSE Contagens(s, value, i + 1)

\* openpyxl's avoid_duplicate_name: when a title equals value, whatever the
\* case of the letters, value gets the highest number that follows an
\* occurrence of value in the titles, plus one (1 when there is no number).
\* The titles studied hold no comma, so the search of the joined titles is
\* the search of each title.
AvoidDuplicateName(names, value) ==
    IF \E n \in names : Lower(n) = Lower(value)
    THEN LET counts == UNION {Contagens(n, value, 1) : n \in names}
             highest == IF counts = {} THEN 0
                        ELSE CHOOSE k \in counts : \A j \in counts : j <= k
         IN  value \o NatToStr(highest + 1)
    ELSE value

\* wb.copy_worksheet(wb[name]): the copy is appended, titled "<name> Copy".
CopyWorksheet(wb, name) ==
    Append(wb, [title |-> AvoidDuplicateName(SheetNames(wb), name \o " Copy"),
                ws |-> Sheet(wb, name)])

\* wb.worksheets[i].title = value
SetTitle(wb, i, value) ==
    [wb EXCEPT ![i].title =
       IF wb[i].title = value THEN value ELSE AvoidDuplicateName(SheetNames(wb), value)]

\* ETAPA 3: delete the sheet named target_month when there is one, copy the
\* template JAN.26 and rename the copy.  ok is FALSE for the KeyError of
\* base_wb['JAN.26'] when the template is not there any more.
clonar_template(wb, mes) ==
    LET wb1 == IF mes \in SheetNames(wb) THEN DelSheet(wb, mes) ELSE wb
    IN  IF "JAN.26" \notin SheetNames(wb1) THEN [ok |-> FALSE, wb |-> wb1]
        ELSE LET wb2 == CopyWorksheet(wb1, "JAN.26")
             IN  [ok |-> TRUE, wb |-> SetTitle(wb2, Len(wb2), mes)]

\* filtrar_inadimplentes: the rows from row 2 on whose value under the
\* header coluna_validacao is 'Não'; ok is FALSE for the ValueError raised
\* when no row-1 cell holds the header.
filtrar_inadimplentes(ws_origem, coluna_validacao) ==
    LET col_idx == encontrar_coluna_por_header(ws_origem, coluna_validacao)
        rows == SelectSeq([k \in 1..(MaxRow(ws_origem) - 1) |-> k + 1],
                          LAMBDA r : ws_origem[r][col_idx] = StrV("Não"))
    IN  IF col_idx = 0 THEN [ok |-> FALSE, inadimplentes |-> <<>>]
        ELSE [ok |-> TRUE, inadimplentes |-> [k \in 1..Len(rows) |-> ws_origem[rows[k]]]]

\* ETAPA 6, the write loop: each filtered row is written cell by cell from
\* proxima_linha_inad on.
RECURSIVE EscreverInadimplentes(_, _, _, _)
EscreverInadimplentes(ws, inadimplentes, k, proxima_linha_inad) ==
    IF k > Len(inadimplentes) THEN ws
    ELSE EscreverInadimplentes(
           WriteCells(ws, proxima_linha_inad,
                      [c \in 1..Len(inadimplentes[k]) |-> <<c, inadimplentes[k][c]>>]),
           inadimplentes, k + 1, proxima_linha_inad + 1)

----------------------------------------------------------------------------
(* The RESUMO sheet (ETAPA 5.4).  Merged cells and cell styles are not     *)
(* modelled: the sheets studied hold values only.                          *)

UpperChar(c) ==
    IF \E i \in 1..26 : At(LowerStr, i) = c
    THEN At(UpperStr, CHOOSE i \in 1..26 : At(LowerStr, i) = c) ELSE c

\* s.upper(), for the unaccented letters.
RECURSIVE Upper(_)
Upper(s) == IF s = "" THEN "" ELSE UpperChar(At(s, 1)) \o Upper(SubSeq(s, 2, Len(s)))

\* The characters str.strip() removes, as far as a string of a module can
\* hold them: blank, tab, newline, carriage return, form feed, then the
\* vertical tab (0B), the separators 1C, 1D, 1E and 1F, the next-line
\* character (85) and the no-break space (A0).  Python also removes the
\* spaces above U+00FF (U+1680, U+2000-U+200A, U+2028, U+2029, U+202F,
\* U+205F, U+3000); the texts studied hold none of them.
WhitespaceChars ==
    {" ", "\t", "\n", "\r", "\f",
     "", "", "", "", "", "", " "}

\* s.strip()
Strip(s) ==
    LET idx == {i \in 1..Len(s) : At(s, i) \notin WhitespaceChars}
    IN  IF idx = {} THEN ""
        ELSE SubSeq(s, CHOOSE i \in idx : \A j \in idx : i <= j,
                       CHOOSE i \in idx : \A j \in idx : j <= i)

\* meses_eng and meses_pt
MesesEng ==
    <<"JAN", "FEV", "MAR", "ABR", "MAI", "JUN", "JUL", "AGO", "SET", "OUT", "NOV", "DEZ">>

MesesPt ==
    <<"jan", "fev", "mar", "abr", "mai", "jun", "jul", "ago", "set", "out", "nov", "dez">>

\* partes = mes_str.upper().strip().split('.'); the month number and the
\* year of a text 'MMM.AA'.
ParseMes(mes_str) ==
    LET s == Strip(Upper(mes_str))
        p == FirstMatch(s, 1, ".")
        mes_abrev == SubSeq(s, 1, p - 1)
    IN  [mes |-> CHOOSE m \in 1..12 : MesesEng[m] = mes_abrev,
         ano |-> 2000 + StrToNat(SubSeq(s, p + 1, Len(s)))]

\* The month k months before, the year left as it is.
MenosMesesMesmoAno(d, k) ==
    [mes |-> ((d.mes - 1 - k) % 12) + 1, ano |-> d.ano]

\* The first day of the month k months before the month d (relativedelta).
MenosMeses(d, k) ==
    LET m0 == d.ano * 12 + (d.mes - 1) - k
    IN  [mes |-> (m0 % 12) + 1, ano |-> m0 \div 12]

\* strftime %d and %m
Pad2(n) == IF n < 10 THEN "0" \o NatToStr(n) ELSE NatToStr(n)

\* The month before, the year left as it is.
calcular_mes_anterior_mesmo_ano(mes_str) ==
    LET d == ParseMes(mes_str)
        ano_str == NatToStr(d.ano)
    IN  MesesPt[IF d.mes = 1 THEN 12 ELSE d.mes - 1] \o "/"
          \o SubSeq(ano_str, Len(ano_str) - 1, Len(ano_str))

\* calcular_mes_anterior: 'JAN.26' gives 'dez/25'.
calcular_mes_anterior(mes_str) ==
    LET d == ParseMes(mes_str)
        d_ant == IF d.mes = 1 THEN [mes |-> 12, ano |-> d.ano - 1]
                 ELSE [mes |-> d.mes - 1, ano |-> d.ano]
        ano_str == NatToStr(d_ant.ano)
    IN  MesesPt[d_ant.mes] \o "/" \o SubSeq(ano_str, Len(ano_str) - 1, Len(ano_str))

\* target_month.replace('.', '/').lower()
MesFaturado(mes) == Lower(Replace(mes, ".", "/"))

\* encontrar_ultima_coluna_resumo: the last column with a value in row 2,
\* 1 when there is none.
encontrar_ultima_coluna_resumo(ws) ==
    LET cols == {c \in 1..MaxCol(ws) : Value(ws, 2, c) # None}
    IN  IF cols = {} THEN 1 ELSE CHOOSE c \in cols : \A d \in cols : d <= c

\* The writes ws.cell(row=r, column=c, value=valores[r]) for the rows r of
\* the domain of valores: the cells are created and a value None leaves a
\* cell as it is.
WriteColumn(ws, c, valores) ==
    LET rows == DOMAIN valores
        g == Grow(ws, CHOOSE r \in rows : \A q \in rows : q <= r, c)
    IN  [r \in 1..MaxRow(g) |->
           IF r \in rows /\ valores[r] # None THEN [g[r] EXCEPT ![c] = valores[r]]
           ELSE g[r]]

\* The values of rows 2-6 of the billing block for column letra.
MesFaturamentoValores(mes, letra) ==
    [r \in 2..6 |->
       CASE r = 2 -> StrV(MesFaturado(mes))
         [] r = 3 -> StrV(calcular_mes_anterior(mes))
         [] r = 4 -> StrV("=SUMIF(BASE!$K:$K,RESUMO!" \o letra \o "3,BASE!$D:$D)")
         [] r = 5 -> StrV("=COUNTIF(BASE!$K:$K,RESUMO!" \o letra \o "3)")
         [] r = 6 -> StrV("=" \o letra \o "4*3%")]

\* The sheet g once its cells (2, nova_coluna) and (9, nova_coluna) have
\* been read: a column is inserted at nova_coluna unless both are empty.
MesFaturamentoColuna(g, nova_coluna) ==
    IF ~(/\ g[2][nova_coluna] = None
         /\ g[9][nova_coluna] = None
         /\ ~(Truthy(g[9][nova_coluna])
                /\ Contains(Upper(StrOf(g[9][nova_coluna])), "REGRA")))
    THEN InsertCols(g, nova_coluna) ELSE g

MesFaturamentoEm(ws_resumo, mes, nova_coluna) ==
    [ws |-> WriteColumn(MesFaturamentoColuna(Grow(ws_resumo, 9, nova_coluna), nova_coluna),
                        nova_coluna,
                        MesFaturamentoValores(mes, get_column_letter(nova_coluna))),
     nova_coluna |-> nova_coluna]

\* The billing block written over the last labelled column.
atualizar_resumo_mes_faturamento_na_ultima(ws_resumo, mes) ==
    MesFaturamentoEm(ws_resumo, mes, encontrar_ultima_coluna_resumo(ws_resumo))

\* atualizar_resumo_mes_faturamento: the column after the last one with a
\* value in row 2; a column is inserted there unless rows 2 and 9 of it are
\* empty; rows 2-6 are written.  Returns the sheet and nova_coluna.
atualizar_resumo_mes_faturamento(ws_resumo, mes) ==
    MesFaturamentoEm(ws_resumo, mes, encontrar_ultima_coluna_resumo(ws_resumo) + 1)

\* The first column whose row-2 value, stripped and in lower case, is the
\* billed month; 0 when there is none.
ColunaDoMes(ws_resumo, mes) ==
    LET cols == {c \in 1..MaxCol(ws_resumo) :
                   /\ Truthy(Value(ws_resumo, 2, c))
                   /\ Lower(Strip(StrOf(Value(ws_resumo, 2, c)))) = MesFaturado(mes)}
    IN  IF cols = {} THEN 0 ELSE CHOOSE c \in cols : \A d \in cols : c <= d

\* strftime("%d/%m/%Y") and strftime("%d/%m") of the day dia of the month d.
DataStr(dia, d) == NatToStr(dia) \o "/" \o Pad2(d.mes) \o "/" \o NatToStr(d.ano)

DiaMesStr(dia, d) == NatToStr(dia) \o "/" \o Pad2(d.mes)

\* The values of rows 9-17 of the CICLO PMT block for column letra, the
\* cycle running from data_ini_str to data_fim_str.
CicloPmtValores(mes, letra, header_str, data_ini_str, data_fim_str) ==
    [r \in 9..17 |->
       CASE r = 9 -> StrV(header_str)
         [] r = 10 -> StrV("=COUNTIFS(BASE!$H:$H,\">=" \o data_ini_str
                             \o "\",BASE!$H:$H,\"<=" \o data_fim_str \o "\")")
         [] r = 11 -> StrV("=SUMIFS(BASE!$D:$D,BASE!$H:$H,\">=" \o data_ini_str
                             \o "\",BASE!$H:$H,\"<=" \o data_fim_str \o "\")")
         [] r = 12 -> StrV("=SUM('" \o mes \o "'!L:L)")
         [] r = 13 -> StrV("=COUNTA('" \o mes \o "'!O:O)-1")
         [] r = 14 -> StrV("=COUNTIFS('" \o mes \o "'!R:R,\">=" \o data_ini_str
                             \o "\",'" \o mes \o "'!R:R,\"<=" \o data_fim_str \o "\")")
         [] r = 15 -> StrV("=" \o letra \o "13-" \o letra \o "14")
         [] r = 16 -> None
         [] r = 17 -> StrV("=" \o letra \o "14-" \o letra \o "10")]

\* The cycle of a month whose first day is data_ref: from day 23 of the
\* month four months before to day 20 of the month after that one.
CicloPmtDe(mes, letra, data_ini, data_fim) ==
    CicloPmtValores(mes, letra,
                    DiaMesStr(23, data_ini) \o " a " \o DiaMesStr(20, data_fim)
                      \o " - " \o NatToStr(data_ini.ano),
                    DataStr(23, data_ini), DataStr(20, data_fim))

CicloPmt(mes, letra, data_ref) ==
    CicloPmtDe(mes, letra, MenosMeses(data_ref, 4), MenosMeses(data_ref, 3))

\* Row 18: the value of the cell to the left is copied when it is truthy.
CicloPmtLinha18(g, col_idx) ==
    [ok |-> TRUE,
     ws |-> CellWrite(g, 18, col_idx,
                      IF Truthy(g[18][col_idx - 1]) THEN g[18][col_idx - 1] ELSE None),
     col_idx |-> col_idx]

\* Rows 9-17 are written (w1); ws.cell(row=18, column=col_idx - 1) raises
\* ValueError for column 0.
CicloPmtEscrito(w1, col_idx) ==
    IF col_idx - 1 < 1 THEN [ok |-> FALSE, ws |-> w1, col_idx |-> col_idx]
    ELSE CicloPmtLinha18(Grow(w1, 18, col_idx), col_idx)

CicloPmtEm(ws_resumo, mes, col_idx) ==
    IF col_idx = 0 THEN [ok |-> FALSE, ws |-> ws_resumo, col_idx |-> 0]
    ELSE CicloPmtEscrito(
           WriteColumn(ws_resumo, col_idx,
                       CicloPmt(mes, get_column_letter(col_idx), ParseMes(mes))),
           col_idx)

\* atualizar_resumo_ciclo_pmt: rows 9-18 of the column found by its row-2
\* label.  ok is FALSE for the ValueError raised when no column has the
\* label (nothing is written), and for the ValueError of
\* ws.cell(row=18, column=0) when the column found is the first one (rows
\* 9-17 are written by then).
atualizar_resumo_ciclo_pmt(ws_resumo, mes) ==
    CicloPmtEm(ws_resumo, mes, ColunaDoMes(ws_resumo, mes))

HeadersRegras == <<"CICLO PARCELAS", "Repasse DataPrev p/Paketa", "Receita Wiipo">>

\* The first column of row 9 naming REGRA and PARCELAMENTO, 0 when there
\* is none.
ColunaRegra(g) ==
    LET cols == {c \in 1..MaxCol(g) :
                   /\ Truthy(g[9][c])
                   /\ Contains(Upper(StrOf(g[9][c])), "REGRA")
                   /\ Contains(Upper(StrOf(g[9][c])), "PARCELAMENTO")}
    IN  IF cols = {} THEN 0 ELSE CHOOSE c \in cols : \A d \in cols : c <= d

HeadersEscritos(g3, col_regra) ==
    [g3 EXCEPT ![9] = [c \in 1..MaxCol(g3) |->
                         IF c > col_regra /\ c <= col_regra + 3
                         THEN StrV(HeadersRegras[c - col_regra]) ELSE g3[9][c]]]

HeadersRegrasEm(g, col_regra) ==
    IF col_regra = 0 THEN g ELSE HeadersEscritos(Grow(g, 9, col_regra + 3), col_regra)

HeadersRegrasDe(g) == HeadersRegrasEm(g, ColunaRegra(g))

\* verificar_e_corrigir_headers_regras: the three headers are written in
\* row 9 right of the first cell naming REGRA and PARCELAMENTO.
verificar_e_corrigir_headers_regras(ws) == HeadersRegrasDe(Grow(ws, 9, MaxCol(ws)))

BlocoFinalValores(valor_linha2, letra) ==
    [r \in 20..23 |->
       CASE r = 20 -> valor_linha2
         [] r = 21 -> StrV("=" \o letra \o "6")
         [] r = 22 -> StrV("=" \o letra \o "12")
         [] r = 23 -> StrV("=SUM(" \o letra \o "21:" \o letra \o "22)")]

\* atualizar_resumo_bloco_final: rows 20-23 of column col_idx; row 20 is the
\* value read in row 2 of that column.
atualizar_resumo_bloco_final(ws, mes, col_idx) ==
    WriteColumn(Grow(ws, 2, col_idx), col_idx,
                BlocoFinalValores(IF Truthy(Value(ws, 2, col_idx)) THEN Value(ws, 2, col_idx)
                                  ELSE StrV(MesFaturado(mes)),
                                  get_column_letter(col_idx)))

ResumoAposCiclo(fat, pmt, mes) ==
    IF ~pmt.ok
    THEN [ok |-> FALSE, ws |-> pmt.ws, coluna_alvo |-> fat.nova_coluna,
          col_idx |-> pmt.col_idx]
    ELSE [ok |-> TRUE,
          ws |-> atualizar_resumo_bloco_final(
                   verificar_e_corrigir_headers_regras(pmt.ws), mes, fat.nova_coluna),
          coluna_alvo |-> fat.nova_coluna,
          col_idx |-> pmt.col_idx]

ResumoAposFaturamento(fat, mes) ==
    ResumoAposCiclo(fat, atualizar_resumo_ciclo_pmt(fat.ws, mes), mes)

\* The try block of ETAPA 5.4 on the RESUMO sheet: the four calls in order;
\* an exception leaves the block with the sheet as written so far.
atualizar_resumo(ws_resumo, mes) ==
    ResumoAposFaturamento(atualizar_resumo_mes_faturamento(ws_resumo, mes), mes)

----------------------------------------------------------------------------
(* Formula templater, run on its own: inputs drawn from bounded strings    *)

MaxFormulaLen == 4

FormulaAlphabet == {"A", "B", "1", "2", "a", "!"}

RECURSIVE StringsUpTo(_, _)
StringsUpTo(alphabet, k) ==
    IF k = 0 THEN {""}
    ELSE LET prev == StringsUpTo(alphabet, k - 1)
         IN  prev \cup {s \o c : s \in prev, c \in alphabet}

\* The example of the function's docstring and the month-sheet templates.
FormulaExamples ==
    {"=IF(ISNUMBER(MATCH(V2;Q:Q;0));\"Sim\";\"Não\")",
     "=VLOOKUP(Q2,'BASE'!A:K,11,0)",
     "=SUMIF(A:A,Q2,L:L)",
     "=SUM(AB12:AB345)+LOG10($C$7)"}

FormulaInputs == StringsUpTo(FormulaAlphabet, MaxFormulaLen) \cup FormulaExamples

LinhasNovas == {2, 5, 10, 310}

\* The upload and the session while an operation is studied on its own.
UOff == arquivo_base = <<>> /\ arquivo_nome = "" /\ session_state = <<>>

\* The workbook variables while the templater is studied on its own.
SOff ==
    /\ pc = "off" /\ target_month = ""
    /\ base_wb = <<>> /\ parceiro_wb = <<>> /\ ret = <<>>
    /\ UOff

FInit ==
    /\ SOff
    /\ fpc = "in"
    /\ formula \in FormulaInputs
    /\ linha1 = 0 /\ out1 = ""
    /\ linha2 = 0 /\ out2 = ""

FOff ==
    /\ fpc = "off" /\ formula = ""
    /\ linha1 = 0 /\ out1 = ""
    /\ linha2 = 0 /\ out2 = ""

\* First application to the input formula.
FAplicar1 ==
    /\ fpc = "in"
    /\ \E n \in LinhasNovas :
         /\ linha1' = n
         /\ out1' = atualizar_formula_linha(formula, n)
    /\ fpc' = "one"
    /\ UNCHANGED <<formula, linha2, out2>>
    /\ UNCHANGED svars /\ UNCHANGED uvars

\* Second application, to the result of the first.
FAplicar2 ==
    /\ fpc = "one"
    /\ \E n \in LinhasNovas :
         /\ linha2' = n
         /\ out2' = atualizar_formula_linha(out1, n)
    /\ fpc' = "two"
    /\ UNCHANGED <<formula, linha1, out1>>
    /\ UNCHANGED svars /\ UNCHANGED uvars

FNext == FAplicar1 \/ FAplicar2

SpecFormula == FInit /\ [][FNext]_vars

----------------------------------------------------------------------------
(* Input workbooks: the BASE ledger layout and the partner sheets          *)

\* The formulas of the BASE ledger, as the program writes them for row 2.
FormulaL(months) ==
    LET RECURSIVE Terms(_)
        Terms(k) ==
            IF k = 0 THEN ""
            ELSE Terms(k - 1) \o (IF k = 1 THEN "" ELSE ",")
                   \o "NOT(ISERROR(VLOOKUP(A2,'" \o months[k] \o "'!A:A,1,0)))"
    IN  "=IF(OR(" \o Terms(Len(months)) \o "),\"Sim\",\"Não\")"

FormulaM(months) ==
    LET RECURSIVE Open(_)
        Open(k) ==
            IF k = 0 THEN ""
            ELSE Open(k - 1) \o "IFERROR(VLOOKUP(A2,'" \o months[k] \o "'!A:N,14,0), "
        RECURSIVE Close(_)
        Close(k) == IF k = 0 THEN "" ELSE ")" \o Close(k - 1)
    IN  "=" \o Open(Len(months)) \o "\"Pendente de pagamento\"" \o Close(Len(months))

FormulaN(months) ==
    LET RECURSIVE Terms(_)
        Terms(k) ==
            IF k = 0 THEN ""
            ELSE Terms(k - 1) \o (IF k = 1 THEN "" ELSE "+")
                   \o "COUNTIF('" \o months[k] \o "'!A:A,BASE!A2)"
    IN  "=" \o Terms(Len(months))

\* Row 1 of BASE: sixteen fixed headers, one per month column, then DATA.
BaseHeader(months) ==
    [c \in 1..16 |-> StrV("COL" \o IntToStr(c))]
      \o [k \in 1..Len(months) |-> StrV(months[k])]
      \o <<StrV("DATA")>>

\* A ledger row r: raw fields in A-G and I-K when the row holds data, and the
\* formula columns H, L-P, month columns and DATA.  tpl holds the row-2
\* texts of L, M and N; an empty text is an empty cell.
BaseRow(r, data, months, tpl) ==
    [c \in 1..7 |-> IF data THEN IntV(100 * r + c) ELSE None]
      \o <<StrV("=F" \o IntToStr(r))>>
      \o [k \in 1..3 |-> IF data THEN IntV(100 * r + 8 + k) ELSE None]
      \o [k \in 1..3 |-> IF tpl[k] = "" THEN None
                          ELSE StrV(Replace(tpl[k], "A2", "A" \o IntToStr(r)))]
      \o <<StrV(FormulaO(r)), StrV(FormulaP(r))>>
      \o [k \in 1..Len(months) |-> StrV(FormulaCountif(months[k], r))]
      \o <<StrV(FormulaData(r))>>

\* A BASE sheet whose row k + 1 is a ledger row when flags[k], and a
\* formula-only row (column A empty) otherwise.
BaseSheetDe(flags, months, tpl) ==
    <<BaseHeader(months)>>
      \o [k \in 1..Len(flags) |-> BaseRow(k + 1, flags[k], months, tpl)]

\* A BASE sheet with nData ledger rows followed by nTrail formula-only rows,
\* as left by formulas filled down in advance.
BaseSheet(nData, nTrail, months, tpl) ==
    BaseSheetDe([k \in 1..(nData + nTrail) |-> k <= nData], months, tpl)

\* A ledger row whose column A was emptied: the other raw fields are still
\* in B-G and I-K.
BaseRowSemA(r, months, tpl) == [BaseRow(r, TRUE, months, tpl) EXCEPT ![1] = None]

\* A BASE sheet with nData ledger rows followed by one row without a
\* column-A value per entry of restos: a formula-only row for FALSE, a row
\* with values left in B-G and I-K for TRUE.
BaseSheetComRestos(nData, restos, months, tpl) ==
    <<BaseHeader(months)>>
      \o [k \in 1..nData |-> BaseRow(k + 1, TRUE, months, tpl)]
      \o [k \in 1..Len(restos) |->
            IF restos[k] THEN BaseRowSemA(nData + 1 + k, months, tpl)
            ELSE BaseRow(nData + 1 + k, FALSE, months, tpl)]

Templates(months) == <<FormulaL(months), FormulaM(months), FormulaN(months)>>

\* A row of 'Produção' (columns A-K; K is beyond what the program reads).
\* A cell (row, c) holds 1000 + 100 * row + c, so that a cell copied to the
\* wrong place is seen; the pattern says which cells are empty.
ProducaoRow(row, pattern) ==
    [c \in 1..11 |->
       IF \/ (pattern = "semA" /\ c = 1)
          \/ (pattern = "semC" /\ c = 3)
          \/ (pattern = "semH" /\ c = 8)
       THEN None ELSE IntV(1000 + 100 * row + c)]

ProducaoSheet(patterns) ==
    <<[c \in 1..11 |-> StrV("P" \o IntToStr(c))]>>
      \o [k \in 1..Len(patterns) |-> ProducaoRow(k + 1, patterns[k])]

RECURSIVE SeqsUpTo(_, _)
SeqsUpTo(S, k) ==
    IF k = 0 THEN {<<>>}
    ELSE LET prev == SeqsUpTo(S, k - 1)
         IN  prev \cup {Append(q, x) : q \in prev, x \in S}

----------------------------------------------------------------------------
(* The ledger appender, run on its own                                     *)

Ret0 ==
    [linhas_copiadas |-> 0,
     resultado |-> [linhas_n_o |-> 0, linhas_q_w |-> 0, ccbs_unicos |-> 0],
     linha_inicio_append |-> 0,
     new_row |-> 0,
     ws_antes |-> EmptySheet,
     linhas_append |-> 0,
     abas_meses_encontradas |-> <<>>,
     linhas_formulas_aplicadas |-> 0,
     linhas_novas_estaticas |-> 0,
     filtrou |-> FALSE,
     proxima_linha_inad |-> 0,
     inadimplentes |-> 0,
     carregado |-> <<>>,
     valido |-> FALSE,
     mensagem |-> "",
     coluna_alvo |-> 0,
     col_idx |-> 0,
     capturadas |-> <<>>,
     erro |-> "",
     saida_antes |-> <<>>,
     execucoes |-> 0]

MaxProdRows == 3

MaxBaseRows == 2

MaxTrailRows == 2

ProducaoPatterns == {"full", "semA", "semC", "semH"}

AInit ==
    /\ FOff /\ UOff
    /\ pc = "append"
    /\ target_month = "FEV.26"
    /\ \E patterns \in SeqsUpTo(ProducaoPatterns, MaxProdRows) :
         parceiro_wb = <<[title |-> "Produção", ws |-> ProducaoSheet(patterns)]>>
    /\ \E ws \in {EmptySheet} \cup
                 {BaseSheetComRestos(n, restos, <<"JAN.26">>, Templates(<<"JAN.26">>)) :
                    n \in 0..MaxBaseRows, restos \in SeqsUpTo(BOOLEAN, MaxTrailRows)} :
         base_wb = <<[title |-> "BASE", ws |-> ws]>>
    /\ ret = Ret0

\* Sub-etapas 5.1 and 5.2: linha_inicio_append is taken, then
\* copiar_producao_para_base(parceiro_wb['Produção'], base_wb['BASE']) runs.
ACopiarProducao ==
    /\ pc = "append"
    /\ LET ws_base == Sheet(base_wb, "BASE")
           res == copiar_producao_para_base(Sheet(parceiro_wb, "Produção"), ws_base)
       IN  /\ base_wb' = PutSheet(base_wb, "BASE", res.ws)
           /\ ret' = [ret EXCEPT
                        !.linha_inicio_append = encontrar_ultima_linha(ws_base) + 1,
                        !.new_row = LastRowBase(ws_base) + 1,
                        !.ws_antes = ws_base,
                        !.linhas_append = res.linhas_copiadas]
    /\ pc' = "atualizar_base"
    /\ UNCHANGED <<target_month, parceiro_wb>>
    /\ UNCHANGED fvars /\ UNCHANGED uvars

ANext == ACopiarProducao

SpecAppend == AInit /\ [][ANext]_vars

----------------------------------------------------------------------------
(* The month sheet stage (ETAPA 4), run on its own                         *)

\* Row 1 of the template sheet JAN.26: columns A-X.
MesHeader == [c \in 1..24 |-> StrV("M" \o IntToStr(c))]

\* The same header with column M headed VALIDAÇÃO.
MesHeaderValidacao == [MesHeader EXCEPT ![13] = StrV("VALIDAÇÃO")]

\* The template with nOld rows of the month it was made for (A-X filled).
TemplateSheet(nOld) ==
    <<MesHeader>> \o [k \in 1..nOld |-> [c \in 1..24 |-> IntV(3000 + 100 * (k + 1) + c)]]

TemplateSheetValidacao(nOld) == [TemplateSheet(nOld) EXCEPT ![1] = MesHeaderValidacao]

\* A row of 'Parcelas Pagas' (columns A-N; N is beyond what the program
\* copies).  The pattern gives the account id of column A, leaves column A
\* empty ("semA") or the whole row empty ("vazia").
ParcelasId(pattern) ==
    CASE pattern \in {"id5", "id5N"} -> IntV(5)
      [] pattern \in {"id3", "id3S"} -> IntV(3)
      [] pattern = "id9" -> IntV(9)
      [] OTHER -> None

ParcelasRow(row, pattern) ==
    [c \in 1..14 |->
       IF pattern = "vazia" THEN None
       ELSE IF c = 1 THEN ParcelasId(pattern)
       ELSE IF c = 13 /\ pattern = "id5N" THEN StrV("Não")
       ELSE IF c = 13 /\ pattern = "id3S" THEN StrV("Sim")
       ELSE IntV(2000 + 100 * row + c)]

ParcelasSheet(patterns) ==
    <<[c \in 1..14 |-> StrV("PP" \o IntToStr(c))]>>
      \o [k \in 1..Len(patterns) |-> ParcelasRow(k + 1, patterns[k])]

MaxParcRows == 4

MaxOldRows == 1

ParcelasPatterns == {"id5", "id3", "id9", "semA", "vazia"}

\* The example of the specification: column A = [5, 5, 3, 5, 3, 9].
ParcelasExample == <<"id5", "id5", "id3", "id5", "id3", "id9">>

MInit ==
    /\ FOff /\ UOff
    /\ pc = "limpar"
    /\ target_month = "FEV.26"
    /\ \E patterns \in SeqsUpTo(ParcelasPatterns, MaxParcRows) \cup {ParcelasExample} :
         parceiro_wb = <<[title |-> "Parcelas Pagas", ws |-> ParcelasSheet(patterns)]>>
    /\ \E nOld \in 0..MaxOldRows :
         base_wb = <<[title |-> "JAN.26", ws |-> TemplateSheet(nOld)],
                     [title |-> target_month, ws |-> TemplateSheet(nOld)]>>
    /\ ret = Ret0

\* ws_mes: the worksheet object returned by copy_worksheet, the last sheet
\* of the workbook whatever the title openpyxl gave it.
WsMes(wb) == wb[Len(wb)].ws

PutWsMes(wb, ws) == [wb EXCEPT ![Len(wb)].ws = ws]

\* Sub-etapa 4.1: limpar_dados_worksheet(ws_mes, manter_linha_1=True)
MLimpar ==
    /\ pc = "limpar"
    /\ base_wb' = PutWsMes(base_wb, limpar_dados_worksheet(WsMes(base_wb), TRUE))
    /\ pc' = "inserir"
    /\ UNCHANGED <<target_month, parceiro_wb, ret>>
    /\ UNCHANGED fvars /\ UNCHANGED uvars

\* Sub-etapa 4.2: inserir_dados_colunas_especificas('Parcelas Pagas', ws_mes, 1, 13, 2)
MInserir ==
    /\ pc = "inserir"
    /\ LET res == inserir_dados_colunas_especificas(
                    Sheet(parceiro_wb, "Parcelas Pagas"), WsMes(base_wb), 1, 13, 2)
       IN  /\ base_wb' = PutWsMes(base_wb, res.ws)
           /\ ret' = [ret EXCEPT !.linhas_copiadas = res.linhas_copiadas]
    /\ pc' = "regras"
    /\ UNCHANGED <<target_month, parceiro_wb>>
    /\ UNCHANGED fvars /\ UNCHANGED uvars

\* Sub-etapa 4.3: aplicar_regras_colunas_n_x(ws_mes, target_month, linha_inicio=2)
MRegras ==
    /\ pc = "regras"
    /\ LET res == aplicar_regras_colunas_n_x(WsMes(base_wb), target_month, 2)
       IN  /\ base_wb' = PutWsMes(base_wb, res.ws)
           /\ ret' = [ret EXCEPT !.resultado =
                        [linhas_n_o |-> res.linhas_n_o,
                         linhas_q_w |-> res.linhas_q_w,
                         ccbs_unicos |-> res.ccbs_unicos]]
    /\ pc' = "append"
    /\ UNCHANGED <<target_month, parceiro_wb>>
    /\ UNCHANGED fvars /\ UNCHANGED uvars

MNext == MLimpar \/ MInserir \/ MRegras

SpecMonth == MInit /\ [][MNext]_vars

----------------------------------------------------------------------------
(* The dynamic-formula rewriter, run on its own                            *)

MesesLedger == <<"JAN.26", "FEV.26", "MAR.26">>

\* The month lists the row-2 templates of an input ledger were built for.
TemplateMonthLists ==
    {<<"JAN.26">>, <<"JAN.26", "FEV.26">>, <<"FEV.26", "JAN.26">>,
     <<"JAN.26", "FEV.26", "MAR.26">>}

TemplateKinds == {"canon", "pontovirgula", "vazio", "texto", "semmarcador", "outrascolunas"}

\* The row-2 templates of L, M and N of an input ledger: the canonical
\* chains, the same with ';' separators, empty cells, plain text, formulas
\* without the markers the rewriter looks for, and chains of JAN.26 that
\* also read the columns E, L and D of their row.
TemplateOf(kind, months) ==
    CASE kind = "canon" -> Templates(months)
      [] kind = "pontovirgula" ->
           [i \in 1..3 |-> Replace(Templates(months)[i], ",", ";")]
      [] kind = "vazio" -> <<"", "", "">>
      [] kind = "texto" -> <<"Sim", "sem data", "zero">>
      [] kind = "outrascolunas" ->
           <<"=IF(OR(E2>0,NOT(ISERROR(VLOOKUP(A2,'JAN.26'!A:A,1,0)))),\"Sim\",\"Não\")",
             "=IF(L2=\"Sim\",IFERROR(VLOOKUP(A2,'JAN.26'!A:N,14,0), \"Pendente de pagamento\"))",
             "=COUNTIF('JAN.26'!A:A,BASE!A2)*D2">>
      [] OTHER -> <<"=IF(ISNUMBER(A2),\"Pago\",\"Aberto\")", "=TODAY()", "=1">>

DRet0 ==
    [colunas_meses |-> <<>>,
     ws_antes |-> EmptySheet,
     ws_aplicada |-> EmptySheet,
     linhas_processadas |-> 0,
     linhas_reaplicadas |-> 0]

MaxLedgerRows == 3

DInit ==
    /\ FOff /\ UOff
    /\ pc = "dinamicas"
    /\ parceiro_wb = <<>>
    /\ \E k \in 0..Len(MesesLedger), flags \in SeqsUpTo(BOOLEAN, MaxLedgerRows),
          kind \in TemplateKinds, tm \in TemplateMonthLists :
         LET ws == BaseSheetDe(flags, SubSeq(MesesLedger, 1, k), TemplateOf(kind, tm))
         IN  /\ target_month = IF k = 0 THEN "" ELSE MesesLedger[k]
             /\ base_wb = <<[title |-> "BASE", ws |-> ws]>>
             /\ ret = [DRet0 EXCEPT !.colunas_meses = encontrar_colunas_meses(ws),
                                    !.ws_antes = ws]

\* aplicar_formulas_dinamicas(ws_base, colunas_meses, base_wb)
DAplicar ==
    /\ pc = "dinamicas"
    /\ LET res == aplicar_formulas_dinamicas(Sheet(base_wb, "BASE"), ret.colunas_meses, base_wb)
       IN  /\ base_wb' = PutSheet(base_wb, "BASE", res.ws)
           /\ ret' = [ret EXCEPT !.linhas_processadas = res.linhas_processadas,
                                 !.ws_aplicada = res.ws]
    /\ pc' = "aplicada"
    /\ UNCHANGED <<target_month, parceiro_wb>>
    /\ UNCHANGED fvars /\ UNCHANGED uvars

\* The same call once more, with the same month list.
DReaplicar ==
    /\ pc = "aplicada"
    /\ LET res == aplicar_formulas_dinamicas(Sheet(base_wb, "BASE"), ret.colunas_meses, base_wb)
       IN  /\ base_wb' = PutSheet(base_wb, "BASE", res.ws)
           /\ ret' = [ret EXCEPT !.linhas_reaplicadas = res.linhas_processadas]
    /\ pc' = "reaplicada"
    /\ UNCHANGED <<target_month, parceiro_wb>>
    /\ UNCHANGED fvars /\ UNCHANGED uvars

DNext == DAplicar \/ DReaplicar

SpecDyn == DInit /\ [][DNext]_vars

----------------------------------------------------------------------------
(* atualizar_aba_base, one call at a time                                  *)

\* What the code keeps between the calls of atualizar_aba_base, with the
\* sheet as it was before the insertion and before the static formulas.
BRet0 ==
    [linha_inicio_append |-> 0,
     colunas_meses |-> <<>>,
     ws_inicial |-> EmptySheet,
     coluna |-> [nome |-> "", indice |-> 0, letra |-> ""],
     ws_inserida |-> EmptySheet,
     linhas_formulas_aplicadas |-> 0,
     ws_dinamica |-> EmptySheet,
     linhas_novas_estaticas |-> 0]

MaxStaticRows == 2

\* How the input ledger is headed past the month block: "DATA", the same
\* word in another case, no such column, or a sheet that ends at column K.
DataKinds == {"DATA", "Data", "ausente", "estreita"}

\* What the O, P and DATA cells of the input rows hold: the static
\* formulas, pasted values, or nothing.
StaticKinds == {"formulas", "valores", "vazias"}

BaseSheetKind(flags, months, tpl, kind, estat) ==
    LET n == 17 + Len(months)
        w0 == BaseSheetDe(flags, months, tpl)
        ws == [r \in 1..Len(w0) |->
                 [c \in 1..n |->
                    IF r = 1 \/ c \notin {15, 16, n} \/ estat = "formulas" THEN w0[r][c]
                    ELSE IF estat = "valores" THEN IntV(900 + r) ELSE None]]
    IN  CASE kind = "DATA" -> ws
          [] kind = "Data" -> [ws EXCEPT ![1][n] = StrV("Data")]
          [] kind = "ausente" -> [r \in 1..Len(ws) |-> SubSeq(ws[r], 1, n - 1)]
          [] kind = "estreita" -> [r \in 1..Len(ws) |-> SubSeq(ws[r], 1, 11)]

BInit ==
    /\ FOff /\ UOff
    /\ pc = "b_colunas"
    /\ parceiro_wb = <<>>
    /\ \E k \in 0..(Len(MesesLedger) - 1), flags \in SeqsUpTo(BOOLEAN, MaxStaticRows),
          kind \in DataKinds, estat \in StaticKinds,
          linha_inicio \in 2..(MaxStaticRows + 2) :
         LET months == SubSeq(MesesLedger, 1, k)
             ws == BaseSheetKind(flags, months, Templates(months), kind, estat)
         IN  /\ linha_inicio <= Len(flags) + 2
             /\ target_month = MesesLedger[k + 1]
             /\ base_wb = <<[title |-> "BASE", ws |-> ws]>>
             /\ ret = [BRet0 EXCEPT !.linha_inicio_append = linha_inicio,
                                    !.ws_inicial = ws]

\* colunas_meses = encontrar_colunas_meses(ws_base)
BColunas ==
    /\ pc = "b_colunas"
    /\ ret' = [ret EXCEPT !.colunas_meses = encontrar_colunas_meses(Sheet(base_wb, "BASE"))]
    /\ pc' = "b_inserir"
    /\ UNCHANGED <<target_month, base_wb, parceiro_wb>>
    /\ UNCHANGED fvars /\ UNCHANGED uvars

\* nova_coluna = inserir_coluna_mes(ws_base, target_month, colunas_meses);
\* colunas_meses.append(nova_coluna)
BInserir ==
    /\ pc = "b_inserir"
    /\ LET ins == inserir_coluna_mes(Sheet(base_wb, "BASE"), target_month, ret.colunas_meses)
       IN  /\ base_wb' = PutSheet(base_wb, "BASE", ins.ws)
           /\ ret' = [ret EXCEPT !.coluna = ins.col,
                                 !.ws_inserida = ins.ws,
                                 !.colunas_meses = Append(@, ins.col)]
    /\ pc' = "b_dinamicas"
    /\ UNCHANGED <<target_month, parceiro_wb>>
    /\ UNCHANGED fvars /\ UNCHANGED uvars

\* linhas_processadas = aplicar_formulas_dinamicas(ws_base, colunas_meses, base_wb)
BDinamicas ==
    /\ pc = "b_dinamicas"
    /\ LET din == aplicar_formulas_dinamicas(Sheet(base_wb, "BASE"), ret.colunas_meses, base_wb)
       IN  /\ base_wb' = PutSheet(base_wb, "BASE", din.ws)
           /\ ret' = [ret EXCEPT !.linhas_formulas_aplicadas = din.linhas_processadas,
                                 !.ws_dinamica = din.ws]
    /\ pc' = "b_estaticas"
    /\ UNCHANGED <<target_month, parceiro_wb>>
    /\ UNCHANGED fvars /\ UNCHANGED uvars

\* linhas_novas_estaticas = aplicar_formulas_estaticas(ws_base, linha_inicio_append);
\* the ValueError leaves atualizar_aba_base.
BEstaticas ==
    /\ pc = "b_estaticas"
    /\ LET est == aplicar_formulas_estaticas(Sheet(base_wb, "BASE"), ret.linha_inicio_append)
       IN  /\ base_wb' = PutSheet(base_wb, "BASE", est.ws)
           /\ ret' = [ret EXCEPT !.linhas_novas_estaticas = est.linhas_processadas]
           /\ pc' = IF est.ok THEN "b_fim" ELSE "b_erro"
    /\ UNCHANGED <<target_month, parceiro_wb>>
    /\ UNCHANGED fvars /\ UNCHANGED uvars

BNext == BColunas \/ BInserir \/ BDinamicas \/ BEstaticas

SpecBase == BInit /\ [][BNext]_vars

----------------------------------------------------------------------------
(* The pipeline: runs of the processing button on the uploaded files       *)

Meses == {"JAN.26", "FEV.26", "MAR.26"}

MaxExecucoes == 2

Session0 ==
    [processado |-> FALSE, target_month |-> "", base_workbook_modificado |-> <<>>,
     base_filename |-> ""]

\* The partner workbooks and the ledger files of the runs studied.
ParcelasRunSheets ==
    {<<>>, <<"id5N", "id5N", "id3S">>, <<"id5", "semA", "id3">>}

ProducaoRunSheets == {<<>>, <<"full", "full">>}

LedgerFilesCompletos ==
    {<<[title |-> "BASE", ws |-> b], [title |-> "JAN.26", ws |-> t]>> \o i :
       b \in {BaseSheet(0, 0, <<"JAN.26">>, Templates(<<"JAN.26">>)),
              BaseSheet(1, 1, <<"JAN.26">>, Templates(<<"JAN.26">>))},
       t \in {TemplateSheet(1), TemplateSheetValidacao(1)},
       i \in {<<>>, <<[title |-> "INADIMPLENTES", ws |-> <<MesHeader>>]>>}}

\* Ledger files without the BASE sheet, and without the template.
LedgerFilesIncompletos ==
    {<<[title |-> "JAN.26", ws |-> TemplateSheetValidacao(1)],
       [title |-> "INADIMPLENTES", ws |-> <<MesHeader>>]>>,
     <<[title |-> "BASE", ws |-> BaseSheet(1, 1, <<"JAN.26">>, Templates(<<"JAN.26">>))],
       [title |-> "INADIMPLENTES", ws |-> <<MesHeader>>]>>,
     <<[title |-> "BASE", ws |-> BaseSheet(1, 1, <<"JAN.26">>, Templates(<<"JAN.26">>))]>>}

\* A RESUMO sheet of 23 rows.  Unless the kind is "colA" column A holds the
\* row titles; then come the columns of the months billed so far, labelled
\* in row 2, and for the kind "regra" the table REGRA PARA PARCELAMENTO,
\* headed in row 9.  A cell of a month column holds 100 * row + column.
ResumoSheet(labels, kind) ==
    LET off == IF kind = "colA" THEN 0 ELSE 1
        n == off + Len(labels) + (IF kind = "regra" THEN 4 ELSE 0)
    IN  [r \in 1..23 |->
           [c \in 1..n |->
              IF c <= off
              THEN CASE r = 2 -> StrV("MES FATURAMENTO")
                     [] r = 9 -> StrV("CICLO PMT")
                     [] r = 20 -> StrV("FATURAMENTO")
                     [] OTHER -> None
              ELSE IF c <= off + Len(labels)
              THEN IF r = 2 THEN StrV(labels[c - off])
                   ELSE IF r \in (3..6) \cup (9..18) \cup (20..23) THEN IntV(100 * r + c)
                   ELSE None
              ELSE IF r # 9 THEN None
              ELSE IF c = off + Len(labels) + 1 THEN StrV("Regra para Parcelamento")
              ELSE StrV(HeadersRegras[c - off - Len(labels) - 1])]]

\* The RESUMO sheets of the ledger files: one month billed; the table of
\* rules right of it; the month FEV.26 already billed, left of the last
\* column; the months laid out from column A, FEV.26 first.
ResumoSheets ==
    {ResumoSheet(<<"jan/26">>, "simples"),
     ResumoSheet(<<"jan/26">>, "regra"),
     ResumoSheet(<<" Fev/26", "jan/26">>, "simples"),
     ResumoSheet(<<"FEV/26 ">>, "colA")}

LedgerFilesResumo ==
    {<<[title |-> "BASE", ws |-> BaseSheet(1, 1, <<"JAN.26">>, Templates(<<"JAN.26">>))],
       [title |-> "JAN.26", ws |-> TemplateSheetValidacao(1)],
       [title |-> "INADIMPLENTES", ws |-> <<MesHeader>>],
       [title |-> "RESUMO", ws |-> r]>> : r \in ResumoSheets}

\* A ledger file that already has a sheet for February, titled in lower
\* case.
LedgerFilesMinusculas ==
    {<<[title |-> "BASE", ws |-> BaseSheet(1, 1, <<"JAN.26">>, Templates(<<"JAN.26">>))],
       [title |-> "JAN.26", ws |-> TemplateSheetValidacao(1)],
       [title |-> "INADIMPLENTES", ws |-> <<MesHeader>>],
       [title |-> "fev.26", ws |-> TemplateSheet(1)]>>}

LedgerFiles ==
    LedgerFilesCompletos \cup LedgerFilesIncompletos \cup LedgerFilesResumo
      \cup LedgerFilesMinusculas

\* The names of the uploaded ledger files.
NomesDeArquivo == {"BASE.xlsx", "Carteira.xlsm"}

\* The partner files: both sheets, or one of them missing.
PartnerFiles ==
    {<<[title |-> "Parcelas Pagas", ws |-> ParcelasSheet(pp)],
       [title |-> "Produção", ws |-> ProducaoSheet(pr)]>> :
       pp \in ParcelasRunSheets, pr \in ProducaoRunSheets}
    \cup {<<[title |-> "Produção", ws |-> ProducaoSheet(<<"full", "full">>)]>>,
          <<[title |-> "Parcelas Pagas", ws |-> ParcelasSheet(<<"id5N", "id5N", "id3S">>)]>>}

RInit ==
    /\ FOff
    /\ pc = "ocioso"
    /\ target_month \in {"FEV.26", "JAN.26"}
    /\ arquivo_base \in LedgerFiles
    /\ arquivo_nome \in NomesDeArquivo
    /\ parceiro_wb \in PartnerFiles
    /\ base_wb = <<>>
    /\ session_state = Session0
    /\ ret = Ret0

Parado == {"ocioso", "fim", "erro", "parado"}

\* The stages of a run in progress; st.* is called between any two of them,
\* and each of the three writes of ETAPA 7 is an access to the session.
Rodando ==
    {"carregado", "clonar", "limpar", "inserir", "regras", "append",
     "atualizar_base", "resumo", "inadimplentes",
     "armazenar", "armazenar_nome", "armazenar_processado"}

\* The download section is rendered when the script run reached it: the
\* run was not ended by st.stop(), a workbook is stored, and the summary
\* section before it found the sheets it reads in the stored workbook (a
\* missing one is an uncaught KeyError).
DownloadOferecido ==
    /\ pc \in {"ocioso", "fim", "erro"}
    /\ session_state.processado
    /\ session_state.base_workbook_modificado # <<>>
    /\ {session_state.target_month, "BASE", "INADIMPLENTES"}
         \subseteq SheetNames(session_state.base_workbook_modificado)

\* The file name of the download button, built from the month of the
\* selectboxes of the current rerun of the script.
nome_saida ==
    Replace(Replace(session_state.base_filename,
                    ".xlsx", "_" \o target_month \o "_processado.xlsx"),
            ".xlsm", "_" \o target_month \o "_processado.xlsx")

\* The month selectboxes between runs: the script is run again with the
\* button off, from the top to the download section, also after a run
\* ended by st.stop().  The outcome of a completed or failed run stays on
\* record.
RSelecionarMes ==
    /\ pc \in Parado
    /\ target_month' \in Meses \ {target_month}
    /\ pc' = IF pc = "parado" THEN "ocioso" ELSE pc
    /\ UNCHANGED <<base_wb, parceiro_wb, ret>>
    /\ UNCHANGED fvars /\ UNCHANGED uvars

\* A widget touched while a run is in progress, the month selectboxes or
\* another one: Streamlit stops the script at its next st.* call or access
\* to the session and runs it again with the button off, from the top to
\* the download section.  The month of the run is in the session since
\* line 1338, the writes of ETAPA 7 not yet executed are not made, and the
\* workbook the run was working on and its other locals are gone with the
\* script run.
RInterromper ==
    /\ pc \in Rodando
    /\ target_month' \in Meses
    /\ pc' = "ocioso"
    /\ base_wb' = <<>>
    /\ ret' = [Ret0 EXCEPT !.execucoes = ret.execucoes]
    /\ UNCHANGED parceiro_wb
    /\ UNCHANGED fvars /\ UNCHANGED uvars

\* The processed file is downloaded under the name offered and uploaded as
\* the BASE file.
RReenviar ==
    /\ pc \in Parado
    /\ DownloadOferecido
    /\ arquivo_base # session_state.base_workbook_modificado
    /\ arquivo_base' = session_state.base_workbook_modificado
    /\ arquivo_nome' = nome_saida
    /\ UNCHANGED <<session_state, svars>>
    /\ UNCHANGED fvars

\* The button, and ETAPA 1: the month is stored and the files are loaded.
RIniciar ==
    /\ pc \in Parado
    /\ ret.execucoes < MaxExecucoes
    /\ session_state' = [session_state EXCEPT !.target_month = target_month]
    /\ base_wb' = arquivo_base
    /\ ret' = [Ret0 EXCEPT !.execucoes = ret.execucoes + 1,
                            !.carregado = arquivo_base,
                            !.saida_antes = session_state.base_workbook_modificado]
    /\ pc' = "carregado"
    /\ UNCHANGED <<target_month, parceiro_wb, arquivo_base, arquivo_nome>>
    /\ UNCHANGED fvars

\* ETAPA 2: st.stop() when a required sheet is missing.
RValidar ==
    /\ pc = "carregado"
    /\ LET res == validar_abas_necessarias(parceiro_wb, base_wb)
       IN  /\ ret' = [ret EXCEPT !.valido = res.valido, !.mensagem = res.mensagem]
           /\ pc' = IF res.valido /\ validar_template_jan26(base_wb)
                    THEN "clonar" ELSE "parado"
    /\ UNCHANGED <<target_month, base_wb, parceiro_wb>>
    /\ UNCHANGED fvars /\ UNCHANGED uvars

\* ETAPA 3
RClonar ==
    /\ pc = "clonar"
    /\ LET res == clonar_template(base_wb, target_month)
       IN  /\ base_wb' = res.wb
           /\ pc' = IF res.ok THEN "limpar" ELSE "erro"
           /\ ret' = [ret EXCEPT !.erro = IF res.ok THEN "" ELSE "clonar"]
    /\ UNCHANGED <<target_month, parceiro_wb>>
    /\ UNCHANGED fvars /\ UNCHANGED uvars

\* Sub-etapa 5.3: atualizar_aba_base; a ValueError ends the run.
RAtualizarBase ==
    /\ pc = "atualizar_base"
    /\ LET res == atualizar_aba_base(base_wb, parceiro_wb, target_month,
                                     ret.linha_inicio_append)
       IN  /\ base_wb' = res.wb
           /\ ret' = [ret EXCEPT
                        !.abas_meses_encontradas = res.abas_meses_encontradas,
                        !.linhas_formulas_aplicadas = res.linhas_formulas_aplicadas,
                        !.linhas_novas_estaticas = res.linhas_novas_estaticas,
                        !.erro = IF res.ok THEN "" ELSE "atualizar_base"]
           /\ pc' = IF res.ok THEN "resumo" ELSE "erro"
    /\ UNCHANGED <<target_month, parceiro_wb>>
    /\ UNCHANGED fvars /\ UNCHANGED uvars

\* Plausible slip for ETAPA 5.4: the RESUMO sheet taken without the test on
\* sheetnames, the KeyError of a ledger without it ending the run.
RResumoSemTeste ==
    /\ pc = "resumo"
    /\ IF "RESUMO" \notin SheetNames(base_wb)
       THEN /\ pc' = "erro"
            /\ ret' = [ret EXCEPT !.erro = "resumo"]
            /\ UNCHANGED base_wb
       ELSE LET res == atualizar_resumo(Sheet(base_wb, "RESUMO"), target_month)
            IN  /\ base_wb' = PutSheet(base_wb, "RESUMO", res.ws)
                /\ ret' = [ret EXCEPT
                             !.coluna_alvo = res.coluna_alvo,
                             !.col_idx = res.col_idx,
                             !.capturadas = IF res.ok THEN @ ELSE Append(@, "resumo")]
                /\ pc' = "inadimplentes"
    /\ UNCHANGED <<target_month, parceiro_wb>>
    /\ UNCHANGED fvars /\ UNCHANGED uvars

\* ETAPA 5.4: skipped for a ledger without a RESUMO sheet; otherwise the
\* four RESUMO calls run inside try/except Exception, and the pipeline goes
\* on to ETAPA 6 whether they raised or not.
RResumo ==
    /\ pc = "resumo"
    /\ IF "RESUMO" \notin SheetNames(base_wb)
       THEN UNCHANGED <<base_wb, ret>>
       ELSE LET res == atualizar_resumo(Sheet(base_wb, "RESUMO"), target_month)
            IN  /\ base_wb' = PutSheet(base_wb, "RESUMO", res.ws)
                /\ ret' = [ret EXCEPT
                             !.coluna_alvo = res.coluna_alvo,
                             !.col_idx = res.col_idx,
                             !.capturadas = IF res.ok THEN @ ELSE Append(@, "resumo")]
    /\ pc' = "inadimplentes"
    /\ UNCHANGED <<target_month, parceiro_wb>>
    /\ UNCHANGED fvars /\ UNCHANGED uvars

\* ETAPA 6: the rows filtered from the month sheet are appended to
\* INADIMPLENTES; the ValueError of a missing header is caught, the
\* KeyError of a missing INADIMPLENTES sheet ends the run.
RInadimplentes ==
    /\ pc = "inadimplentes"
    /\ LET res == filtrar_inadimplentes(WsMes(base_wb), "VALIDAÇÃO")
       IN  IF ~res.ok \/ res.inadimplentes = <<>>
           THEN /\ pc' = "armazenar"
                /\ ret' = [ret EXCEPT
                             !.filtrou = res.ok,
                             !.capturadas = IF res.ok THEN @ ELSE Append(@, "inadimplentes")]
                /\ UNCHANGED base_wb
           ELSE IF "INADIMPLENTES" \notin SheetNames(base_wb)
           THEN /\ pc' = "erro"
                /\ ret' = [ret EXCEPT !.erro = "inadimplentes"]
                /\ UNCHANGED base_wb
           ELSE LET ws_inadimplentes == Sheet(base_wb, "INADIMPLENTES")
                    proxima_linha_inad == encontrar_ultima_linha(ws_inadimplentes) + 1
                IN  /\ base_wb' = PutSheet(base_wb, "INADIMPLENTES",
                                     EscreverInadimplentes(ws_inadimplentes, res.inadimplentes,
                                                           1, proxima_linha_inad))
                    /\ ret' = [ret EXCEPT !.filtrou = TRUE,
                                          !.proxima_linha_inad = proxima_linha_inad,
                                          !.inadimplentes = Len(res.inadimplentes)]
                    /\ pc' = "armazenar"
    /\ UNCHANGED <<target_month, parceiro_wb>>
    /\ UNCHANGED fvars /\ UNCHANGED uvars

\* ETAPA 7, first statement: the workbook.
RArmazenarWorkbook ==
    /\ pc = "armazenar"
    /\ session_state' = [session_state EXCEPT !.base_workbook_modificado = base_wb]
    /\ pc' = "armazenar_nome"
    /\ UNCHANGED <<target_month, base_wb, parceiro_wb, ret, arquivo_base, arquivo_nome>>
    /\ UNCHANGED fvars

\* ETAPA 7, second statement: the name of the uploaded file.
RArmazenarNome ==
    /\ pc = "armazenar_nome"
    /\ session_state' = [session_state EXCEPT !.base_filename = arquivo_nome]
    /\ pc' = "armazenar_processado"
    /\ UNCHANGED <<target_month, base_wb, parceiro_wb, ret, arquivo_base, arquivo_nome>>
    /\ UNCHANGED fvars

\* ETAPA 7, third statement: the flag the summary and the download read.
RArmazenarProcessado ==
    /\ pc = "armazenar_processado"
    /\ session_state' = [session_state EXCEPT !.processado = TRUE]
    /\ pc' = "fim"
    /\ UNCHANGED <<target_month, base_wb, parceiro_wb, ret, arquivo_base, arquivo_nome>>
    /\ UNCHANGED fvars

RNext ==
    \/ RSelecionarMes \/ RInterromper \/ RReenviar \/ RIniciar \/ RValidar \/ RClonar
    \/ MLimpar \/ MInserir \/ MRegras \/ ACopiarProducao
    \/ RAtualizarBase \/ RResumo \/ RInadimplentes
    \/ RArmazenarWorkbook \/ RArmazenarNome \/ RArmazenarProcessado

SpecRun == RInit /\ [][RNext]_vars


----------------------------------------------------------------------------
(* The RESUMO stage, one call at a time                                    *)

\* Labels of the selectboxes: the twelve abbreviations and the first two
\* years.
MesesResumo == {MesesEng[m] \o "." \o a : m \in 1..12, a \in {"26", "27"}}

\* What the run keeps of the RESUMO stage, with the sheet as it was before
\* each call.
SRet0 ==
    [ws_inicial |-> EmptySheet,
     nova_coluna |-> 0,
     mes_ref |-> "",
     ws_faturada |-> EmptySheet,
     col_idx |-> 0,
     ws_ciclo |-> EmptySheet,
     ws_headers |-> EmptySheet]

\* A RESUMO sheet with one more column right of the labelled ones: empty
\* ("folga"), or holding a value in row 9 only ("linha9"); and a sheet
\* whose row 2 is empty ("semlinha2").
ResumoSheetCom(labels, kind) ==
    LET w == ResumoSheet(labels, "simples")
    IN  IF kind = "semlinha2"
        THEN [r \in 1..23 |-> [c \in 1..MaxCol(w) |-> IF r = 2 THEN None ELSE w[r][c]]]
        ELSE [r \in 1..23 |->
                Append(w[r], IF kind = "linha9" /\ r = 9 THEN StrV("Observações") ELSE None)]

ResumoInputs ==
    ResumoSheets
    \cup {ResumoSheetCom(<<"jan/26">>, "folga"),
          ResumoSheetCom(<<"dez/25", "jan/26">>, "linha9"),
          ResumoSheetCom(<<"jan/26">>, "semlinha2"),
          ResumoSheet(<<"nov/25", "dez/25">>, "regra"),
          ResumoSheet(<<"fev/26\n", "\tmar/26", "jan/26">>, "simples")}

SInit ==
    /\ FOff /\ UOff
    /\ pc = "s_faturamento"
    /\ parceiro_wb = <<>>
    /\ target_month \in MesesResumo
    /\ \E ws \in ResumoInputs :
         /\ base_wb = <<[title |-> "RESUMO", ws |-> ws]>>
         /\ ret = [SRet0 EXCEPT !.ws_inicial = ws]

\* coluna_alvo = atualizar_resumo_mes_faturamento(base_wb, target_month),
\* with its local mes_ref = calcular_mes_anterior(target_month)
SFaturamento ==
    /\ pc = "s_faturamento"
    /\ LET fat == atualizar_resumo_mes_faturamento(Sheet(base_wb, "RESUMO"), target_month)
       IN  /\ base_wb' = PutSheet(base_wb, "RESUMO", fat.ws)
           /\ ret' = [ret EXCEPT !.nova_coluna = fat.nova_coluna,
                                 !.mes_ref = calcular_mes_anterior(target_month),
                                 !.ws_faturada = fat.ws]
    /\ pc' = "s_ciclo"
    /\ UNCHANGED <<target_month, parceiro_wb>>
    /\ UNCHANGED fvars /\ UNCHANGED uvars

\* atualizar_resumo_ciclo_pmt(base_wb, target_month); its ValueError leaves
\* the stage.
SCiclo ==
    /\ pc = "s_ciclo"
    /\ LET pmt == atualizar_resumo_ciclo_pmt(Sheet(base_wb, "RESUMO"), target_month)
       IN  /\ base_wb' = PutSheet(base_wb, "RESUMO", pmt.ws)
           /\ ret' = [ret EXCEPT !.col_idx = pmt.col_idx, !.ws_ciclo = pmt.ws]
           /\ pc' = IF pmt.ok THEN "s_headers" ELSE "s_erro"
    /\ UNCHANGED <<target_month, parceiro_wb>>
    /\ UNCHANGED fvars /\ UNCHANGED uvars

\* verificar_e_corrigir_headers_regras(base_wb['RESUMO'])
SHeaders ==
    /\ pc = "s_headers"
    /\ LET ws == verificar_e_corrigir_headers_regras(Sheet(base_wb, "RESUMO"))
       IN  /\ base_wb' = PutSheet(base_wb, "RESUMO", ws)
           /\ ret' = [ret EXCEPT !.ws_headers = ws]
    /\ pc' = "s_bloco_final"
    /\ UNCHANGED <<target_month, parceiro_wb>>
    /\ UNCHANGED fvars /\ UNCHANGED uvars

\* atualizar_resumo_bloco_final(base_wb, target_month, col_idx=coluna_alvo)
SBlocoFinal ==
    /\ pc = "s_bloco_final"
    /\ base_wb' = PutSheet(base_wb, "RESUMO",
                           atualizar_resumo_bloco_final(Sheet(base_wb, "RESUMO"),
                                                        target_month, ret.nova_coluna))
    /\ pc' = "s_fim"
    /\ UNCHANGED <<target_month, parceiro_wb, ret>>
    /\ UNCHANGED fvars /\ UNCHANGED uvars

SNext == SFaturamento \/ SCiclo \/ SHeaders \/ SBlocoFinal

SpecResumo == SInit /\ [][SNext]_vars

----------------------------------------------------------------------------
(* encontrar_colunas_meses, run on its own                                 *)

MaxMonthCols == 3

\* What row 1 holds in a column right of P: nothing, an empty text, or the
\* name of a month sheet.
HeaderChoices == {None, StrV(""), StrV("JAN.26"), StrV("FEV.26")}

\* Where the header DATA is: right of the month columns and followed by one
\* more headed column ("DATA"), written in another case ("Data"), absent
\* ("ausente"), or in column K, left of P ("cedo").
DataPlaces == {"DATA", "Data", "ausente", "cedo"}

\* A ledger of two rows whose columns A-P are headed, with the headers hs
\* in the columns from Q on.
LedgerHeaded(hs, place) ==
    LET n == 16 + Len(hs) + (IF place \in {"DATA", "Data"} THEN 2 ELSE 0)
    IN  [r \in 1..2 |->
           [c \in 1..n |->
              IF r = 2 THEN IntV(c)
              ELSE IF c = 11 /\ place = "cedo" THEN StrV("DATA")
              ELSE IF c <= 16 THEN StrV("COL " \o get_column_letter(c))
              ELSE IF c <= 16 + Len(hs) THEN hs[c - 16]
              ELSE IF c = 16 + Len(hs) + 1 THEN StrV(place)
              ELSE StrV("OBS")]]

QInit ==
    /\ FOff /\ UOff
    /\ pc = "q_colunas"
    /\ parceiro_wb = <<>>
    /\ target_month = "MAR.26"
    /\ \E hs \in SeqsUpTo(HeaderChoices, MaxMonthCols), place \in DataPlaces :
         base_wb = <<[title |-> "BASE", ws |-> LedgerHeaded(hs, place)]>>
    /\ ret = [colunas_meses |-> <<>>]

\* colunas_meses = encontrar_colunas_meses(ws_base)
QColunas ==
    /\ pc = "q_colunas"
    /\ ret' = [ret EXCEPT !.colunas_meses = encontrar_colunas_meses(Sheet(base_wb, "BASE"))]
    /\ pc' = "q_fim"
    /\ UNCHANGED <<target_month, base_wb, parceiro_wb>>
    /\ UNCHANGED fvars /\ UNCHANGED uvars

QNext == QColunas

SpecMeses == QInit /\ [][QNext]_vars

----------------------------------------------------------------------------
(* ETAPA 5 on its own: the append to BASE, then atualizar_aba_base         *)

MaxLedgerAppend == 2

\* The BASE sheet has up to MaxStaticRows rows under the header, each a
\* ledger row or a row whose column A is empty while its formula columns
\* are not; O, P and DATA hold the static formulas, values or nothing.
EInit ==
    /\ FOff /\ UOff
    /\ pc = "append"
    /\ target_month = "FEV.26"
    /\ \E patterns \in SeqsUpTo(ProducaoPatterns, MaxLedgerAppend) :
         parceiro_wb = <<[title |-> "Produção", ws |-> ProducaoSheet(patterns)]>>
    /\ \E flags \in SeqsUpTo(BOOLEAN, MaxStaticRows), estat \in StaticKinds :
         base_wb = <<[title |-> "BASE",
                      ws |-> BaseSheetKind(flags, <<"JAN.26">>, Templates(<<"JAN.26">>),
                                           "DATA", estat)]>>
    /\ ret = Ret0

ENext == ACopiarProducao \/ RAtualizarBase

SpecLedger == EInit /\ [][ENext]_vars

----------------------------------------------------------------------------
(* C1                                                                      *)

\* C1: the k-th appended row comes from source row k + 1 and lands in BASE
\* row r = first new row + k - 1; its columns 1-7 equal the source's 1-7,
\* column 8 is the formula =F{r}, columns 9-11 equal the source's 8-10.
C1_AppendColumnMapping ==
    pc = "atualizar_base" =>
      \A k \in 1..ret.linhas_append :
        LET r == ret.new_row + k - 1
            ws_base == Sheet(base_wb, "BASE")
            ws_prod == Sheet(parceiro_wb, "Produção")
        IN  /\ \A c \in 1..7 : Value(ws_base, r, c) = Value(ws_prod, k + 1, c)
            /\ Value(ws_base, r, 8) = StrV("=F" \o IntToStr(r))
            /\ \A c \in 8..10 : Value(ws_base, r, c + 1) = Value(ws_prod, k + 1, c)

\* A source row with an empty column C lands on a BASE row that had no
\* column-A value and 403 in column C: the cell still holds 403 after the
\* append, beside the values copied from the source and the formula =F4.
C1_ValorAntigoMantido ==
    /\ pc = "atualizar_base"
    /\ ret.linhas_append >= 1
    /\ ret.new_row = 4
    /\ Value(ret.ws_antes, 4, 1) = None
    /\ Value(ret.ws_antes, 4, 3) = IntV(403)
    /\ Value(Sheet(parceiro_wb, "Produção"), 2, 1) = IntV(1201)
    /\ Value(Sheet(parceiro_wb, "Produção"), 2, 3) = None
    /\ Value(Sheet(base_wb, "BASE"), 4, 1) = IntV(1201)
    /\ Value(Sheet(base_wb, "BASE"), 4, 3) = IntV(403)
    /\ Value(Sheet(base_wb, "BASE"), 4, 8) = StrV("=F4")

\* The destination rows of the append held nothing in A-G and I-K before
\* it, as on an empty BASE or below formula-only trailing rows.
DestinoLivre ==
    \A k \in 1..ret.linhas_append : \A c \in (1..7) \cup (9..11) :
      Value(ret.ws_antes, ret.new_row + k - 1, c) = None

\* On destination rows without values in A-G and I-K every appended row is
\* the source row with the formula injected in column 8 and the source's
\* columns 8-10 shifted to 9-11.
C1_MapeamentoEmDestinoLivre ==
    (pc = "atualizar_base" /\ DestinoLivre) => C1_AppendColumnMapping

\* Two rows were appended below a ledger with formula-only trailing rows;
\* the second has an empty source column H, and the first carries its own
\* column 8 value into BASE column 9.
C1_Witness ==
    /\ pc = "atualizar_base"
    /\ ret.linhas_append = 2
    /\ ret.new_row = 4
    /\ MaxRow(Sheet(base_wb, "BASE")) = 5
    /\ Value(Sheet(parceiro_wb, "Produção"), 2, 8) = IntV(1208)
    /\ Value(Sheet(base_wb, "BASE"), 4, 9) = IntV(1208)
    /\ Value(Sheet(base_wb, "BASE"), 4, 8) = StrV("=F4")
    /\ Value(Sheet(parceiro_wb, "Produção"), 3, 8) = None
    /\ Value(Sheet(base_wb, "BASE"), 5, 9) = None

----------------------------------------------------------------------------
(* C2                                                                      *)

\* The number of sheets of wb titled name.
SheetCount(wb, name) == Cardinality({i \in 1..Len(wb) : wb[i].title = name})

\* The number of BASE columns whose row-1 header is name.
HeaderCount(ws, name) == Cardinality({c \in 1..MaxCol(ws) : ws[1][c] = StrV(name)})

\* The file a run started from is the output of an earlier run for the
\* same month: it holds the month sheet and the month column.
SegundaExecucao ==
    /\ ret.execucoes = 2
    /\ target_month \in SheetNames(arquivo_base)
    /\ HeaderCount(Sheet(arquivo_base, "BASE"), target_month) = 1

\* C2: a second run for the same target month, on the workbook left by the
\* first, ends with exactly one sheet named target_month and exactly one
\* BASE column headed target_month.
C2_IdempotentRerun ==
    (pc = "fim" /\ SegundaExecucao) =>
      /\ SheetCount(base_wb, target_month) = 1
      /\ HeaderCount(Sheet(base_wb, "BASE"), target_month) = 1

----------------------------------------------------------------------------
(* C3, C6, C7                                                              *)

\* The last row of ws, from row 2 on, with a value in column A; 1 when none.
LastDataRow(ws) ==
    LET rows == {r \in 2..MaxRow(ws) : Value(ws, r, 1) # None}
    IN  IF rows = {} THEN 1 ELSE CHOOSE r \in rows : \A q \in rows : q <= r

\* The month sheet the rewriter extends the templates for.
NewMonth == ret.colunas_meses[Len(ret.colunas_meses)].nome

InSeq(x, seq) == \E i \in 1..Len(seq) : seq[i] = x

\* The row-2 text of column c before the call, with ',' separators.
TemplateBefore(c) == Replace(TextoCelula(Value(ret.ws_antes, 2, c)), ";", ",")

\* The rewriter ran with a month list and a ledger that has data rows.
Rewrote == pc = "aplicada" /\ ret.colunas_meses # <<>> /\ LastDataRow(ret.ws_antes) >= 2

\* C3: with a non-empty month list and last data row L >= 2, every row r in
\* 2..L holds in L, M and N the row-2 template with its reference A2 turned
\* into A{r}; the row-2 template is the one read before the call extended
\* by the new month (for the canonical chains: the chain of the old months
\* followed by the new one); the count returned is L - 1.
C3_AllRowsRewritten ==
    Rewrote =>
      LET ws == Sheet(base_wb, "BASE")
          L == LastDataRow(ret.ws_antes)
      IN  /\ ret.linhas_processadas = L - 1
          /\ \A r \in 2..L : \A c \in 12..14 :
               /\ Value(ws, 2, c).t = "str"
               /\ Value(ws, r, c) =
                    StrV(Replace(Value(ws, 2, c).s, "A2", "A" \o IntToStr(r)))
          /\ \A tm \in TemplateMonthLists : \A i \in 1..3 :
               (TemplateBefore(11 + i) = Templates(tm)[i] /\ ~InSeq(NewMonth, tm))
                 => Value(ws, 2, 11 + i) = StrV(Templates(Append(tm, NewMonth))[i])

\* Rows 2 and 3 hold data and row 4 is a formula-only row; the chains of
\* JAN.26 and FEV.26 were extended by MAR.26, row 3 holds the extended
\* templates with A3, row 4 kept its formula, and the count is 2.
C3_Witness ==
    /\ Rewrote
    /\ LastDataRow(ret.ws_antes) = 3
    /\ MaxRow(ret.ws_antes) = 4
    /\ ret.linhas_processadas = 2
    /\ Value(ret.ws_antes, 3, 14) =
         StrV("=COUNTIF('JAN.26'!A:A,BASE!A3)+COUNTIF('FEV.26'!A:A,BASE!A3)")
    /\ Value(Sheet(base_wb, "BASE"), 3, 14) =
         StrV("=COUNTIF('JAN.26'!A:A,BASE!A3)+COUNTIF('FEV.26'!A:A,BASE!A3)+COUNTIF('MAR.26'!A:A,BASE!A3)")
    /\ Value(Sheet(base_wb, "BASE"), 3, 13) =
         StrV("=IFERROR(VLOOKUP(A3,'JAN.26'!A:N,14,0), IFERROR(VLOOKUP(A3,'FEV.26'!A:N,14,0), IFERROR(VLOOKUP(A3,'MAR.26'!A:N,14,0), \"Pendente de pagamento\")))")
    /\ Value(Sheet(base_wb, "BASE"), 4, 14) =
         StrV("=COUNTIF('JAN.26'!A:A,BASE!A4)+COUNTIF('FEV.26'!A:A,BASE!A4)")

\* C6: when the row-2 formula of column L is an OR chain over earlier month
\* sheets and not the new one, the rewritten row-2 formula is the chain of
\* the same terms in the same order followed by one term for the new month,
\* placed last before ),"Sim".
C6_ChainExtension ==
    Rewrote =>
      \A tm \in TemplateMonthLists :
        (TemplateBefore(12) = FormulaL(tm) /\ ~InSeq(NewMonth, tm))
          => Value(Sheet(base_wb, "BASE"), 2, 12) = StrV(FormulaL(Append(tm, NewMonth)))

\* The chain of JAN.26 and FEV.26 was extended by MAR.26, which comes last.
C6_Witness ==
    /\ Rewrote
    /\ Value(ret.ws_antes, 2, 12) =
         StrV("=IF(OR(NOT(ISERROR(VLOOKUP(A2,'JAN.26'!A:A,1,0))),NOT(ISERROR(VLOOKUP(A2,'FEV.26'!A:A,1,0)))),\"Sim\",\"Não\")")
    /\ Value(Sheet(base_wb, "BASE"), 2, 12) =
         StrV("=IF(OR(NOT(ISERROR(VLOOKUP(A2,'JAN.26'!A:A,1,0))),NOT(ISERROR(VLOOKUP(A2,'FEV.26'!A:A,1,0))),NOT(ISERROR(VLOOKUP(A2,'MAR.26'!A:A,1,0)))),\"Sim\",\"Não\")")

\* C7: when the row-2 formulas of L, M and N already name the month sheet,
\* the call leaves the three templates as they were, and a second call with
\* the same month list leaves the sheet as the first call left it.
C7_ReextensionNoOp ==
    /\ (Rewrote /\ \A c \in 12..14 :
                     /\ StartsWith(TextoCelula(Value(ret.ws_antes, 2, c)), "=")
                     /\ Contains(TextoCelula(Value(ret.ws_antes, 2, c)), NewMonth))
         => \A c \in 12..14 : Value(Sheet(base_wb, "BASE"), 2, c) = Value(ret.ws_antes, 2, c)
    /\ pc = "reaplicada" => Sheet(base_wb, "BASE") = ret.ws_aplicada

----------------------------------------------------------------------------
(* C4                                                                      *)

\* An account id in comparable form: its text, without a trailing ".0".
IdNormalizado(v) ==
    LET s == StrOf(v)
    IN  IF Len(s) > 2 /\ SubSeq(s, Len(s) - 1, Len(s)) = ".0"
        THEN SubSeq(s, 1, Len(s) - 2) ELSE s

\* C4: the ids reported to INADIMPLENTES by a run are the ids of the rows
\* examined (column A of the month sheet) whose normalized id is absent
\* from column Q of the month sheet, and each is reported once.
C4_DelinquencySetDifference ==
    pc = "armazenar" =>
      LET ws_mes == WsMes(base_wb)
          ids(c) == {IdNormalizado(Value(ws_mes, r, c)) :
                       r \in {q \in 2..MaxRow(ws_mes) : Value(ws_mes, q, c) # None}}
          ws_inad == Sheet(base_wb, "INADIMPLENTES")
          reported == [k \in 1..ret.inadimplentes |->
                         IdNormalizado(Value(ws_inad, ret.proxima_linha_inad + k - 1, 1))]
      IN  /\ {reported[k] : k \in 1..Len(reported)} = ids(1) \ ids(17)
          /\ \A i, j \in 1..Len(reported) : i # j => reported[i] # reported[j]

----------------------------------------------------------------------------
(* C5, C10                                                                 *)

\* The values of column c in rows from..max_row that are not None, in row order.
ColumnValues(ws, c, from) ==
    LET rows == SelectSeq([k \in 1..(MaxRow(ws) - from + 1) |-> from + k - 1],
                          LAMBDA r : Value(ws, r, c) # None)
    IN  [k \in 1..Len(rows) |-> Value(ws, rows[k], c)]

FirstIndex(seq, x) == CHOOSE i \in 1..Len(seq) : seq[i] = x /\ \A j \in 1..(i - 1) : seq[j] # x

\* u lists the distinct elements of seq, each once, in order of first occurrence.
IsFirstOccurrenceList(u, seq) ==
    /\ {u[i] : i \in 1..Len(u)} = {seq[i] : i \in 1..Len(seq)}
    /\ \A i, j \in 1..Len(u) : i < j => FirstIndex(seq, u[i]) < FirstIndex(seq, u[j])

\* Column A of the month sheet has no empty cell between two values.
ColumnAContiguous(ws) ==
    \A r \in 2..MaxRow(ws) : Value(ws, r, 1) # None => \A q \in 2..r : Value(ws, q, 1) # None

\* C5: after aplicar_regras_colunas_n_x, column Q holds from row 2 on, one
\* per row, the distinct values of column A in order of first occurrence,
\* and ccbs_unicos is the number of rows of Q written.
C5_UniqueCcbOrdering ==
    pc = "append" =>
      LET ws == Sheet(base_wb, target_month)
          q == ColumnValues(ws, 17, 2)
      IN  /\ IsFirstOccurrenceList(q, ColumnValues(ws, 1, 2))
          /\ ret.resultado.ccbs_unicos = Len(q)
          /\ \A k \in 1..Len(q) : Value(ws, 1 + k, 17) = q[k]

\* C10: after the month-sheet stage, columns A-M hold one row per non-empty
\* row of 'Parcelas Pagas' in source order from row 2, columns Q-T hold one
\* row per distinct account id of column A, and the rows beyond those
\* counts are empty in those column blocks.
C10_MonthSheetContents ==
    pc = "append" =>
      LET ws == Sheet(base_wb, target_month)
          pp == Sheet(parceiro_wb, "Parcelas Pagas")
          src == SelectSeq([k \in 1..(MaxRow(pp) - 1) |-> k + 1],
                           LAMBDA r : ~AllNone(pp[r]))
          ids == {Value(ws, r, 1) : r \in 2..MaxRow(ws)} \ {None}
          nq == Cardinality(ids)
      IN  /\ \A k \in 1..Len(src) : \A c \in 1..13 : Value(ws, 1 + k, c) = pp[src[k]][c]
          /\ \A r \in (Len(src) + 2)..MaxRow(ws) : \A c \in 1..13 : Value(ws, r, c) = None
          /\ {Value(ws, 1 + k, 17) : k \in 1..nq} = ids
          /\ \A k \in 1..nq : \A c \in 18..20 : Value(ws, 1 + k, c) # None
          /\ \A r \in (nq + 2)..MaxRow(ws) : \A c \in 17..20 : Value(ws, r, c) = None

----------------------------------------------------------------------------
(* C8, C9                                                                  *)

\* Position p of s is a digit of a cell-reference token: a digit reached
\* from an upper-case letter through digits only.
TokenDigit(s, p) ==
    /\ p >= 1 /\ p <= Len(s)
    /\ IsDigit(At(s, p))
    /\ \E q \in 1..(p - 1) :
         /\ IsUpper(At(s, q))
         /\ \A k \in (q + 1)..p : IsDigit(At(s, k))

\* What position p of s contributes to the retargeted text: a token's digit
\* run contributes the new row once, every other character itself.
Contribution(s, p, n) ==
    IF TokenDigit(s, p)
    THEN IF TokenDigit(s, p - 1) THEN "" ELSE IntToStr(n)
    ELSE At(s, p)

RECURSIVE Retargeted(_, _, _)
Retargeted(s, p, n) ==
    IF p = 0 THEN "" ELSE Retargeted(s, p - 1, n) \o Contribution(s, p, n)

\* C8: atualizar_formula_linha(f, n) is f with the digit run of every
\* cell-reference token (letters immediately followed by digits) replaced
\* by n; letter runs and all other text are unchanged.
C8_RowTokensReplaced ==
    fpc \in {"one", "two"} => out1 = Retargeted(formula, Len(formula), linha1)

\* A formula with two tokens, a multi-digit row and text between them has
\* been retargeted to another row.
C8_Witness ==
    /\ fpc = "one"
    /\ formula = "=SUM(AB12:AB345)+LOG10($C$7)"
    /\ linha1 = 5
    /\ out1 = "=SUM(AB5:AB5)+LOG5($C$7)"

\* C9: retargeting twice equals retargeting once to the last row.
C9_LastWriteWins ==
    fpc = "two" => out2 = atualizar_formula_linha(formula, linha2)

\* A token was retargeted to a two-digit row and then to a one-digit row.
C9_Witness ==
    /\ fpc = "two"
    /\ formula = "A1!B"
    /\ linha1 = 10 /\ out1 = "A10!B"
    /\ linha2 = 5 /\ out2 = "A5!B"

----------------------------------------------------------------------------
(* C11: the month column inserted in BASE                                  *)

\* The column headed DATA, or the column after the sheet's last one.
MonthBlockEnd(ws) ==
    LET cols == {c \in 1..MaxCol(ws) : Value(ws, 1, c) = StrV("DATA")}
    IN  IF cols = {} THEN MaxCol(ws) + 1 ELSE CHOOSE c \in cols : \A d \in cols : c <= d

\* The index the new month column is expected at: after the last headed
\* column between P and the end of the month block, Q when there is none.
ExpectedInsertion(ws) ==
    LET cols == {c \in 17..(MonthBlockEnd(ws) - 1) : Truthy(Value(ws, 1, c))}
    IN  IF cols = {} THEN 17 ELSE (CHOOSE c \in cols : \A d \in cols : d <= c) + 1

Inserida == pc \in {"b_dinamicas", "b_estaticas", "b_fim", "b_erro"}

\* C11: inserir_coluna_mes inserts one column at (last month column) + 1,
\* or at 17 when there is no month column; the cells left of it stay, the
\* cells at or right of it (DATA included) are found one column further
\* right; row 1 of the new column holds target_month and every row from 2
\* to the last data row holds the COUNTIF over the month sheet's column A
\* keyed on BASE!A{r}.
C11_MonthColumnInserted ==
    Inserida =>
      LET a == ret.ws_inicial
          b == ret.ws_inserida
          pos == ExpectedInsertion(a)
      IN  /\ ret.coluna.indice = pos
          /\ ret.coluna.nome = target_month
          /\ MaxRow(b) = MaxRow(a)
          /\ MaxCol(a) >= pos - 1 => MaxCol(b) = MaxCol(a) + 1
          /\ \A r \in 1..MaxRow(a) : \A c \in 1..(MaxCol(b) + 1) :
               /\ c < pos => Value(b, r, c) = Value(a, r, c)
               /\ c > pos => Value(b, r, c) = Value(a, r, c - 1)
          /\ MonthBlockEnd(a) <= MaxCol(a) =>
               Value(b, 1, MonthBlockEnd(a) + 1) = StrV("DATA")
          /\ Value(b, 1, pos) = StrV(target_month)
          /\ \A r \in 2..LastDataRow(a) :
               Value(b, r, pos) =
                 StrV("=COUNTIF('" \o target_month \o "'!A:A,BASE!A" \o IntToStr(r) \o ")")

\* Two month columns and DATA in S: MAR.26 is inserted at S, DATA moves to
\* T and the two data rows get their COUNTIF.
C11_Witness ==
    /\ pc = "b_dinamicas"
    /\ target_month = "MAR.26"
    /\ Value(ret.ws_inicial, 1, 19) = StrV("DATA")
    /\ LastDataRow(ret.ws_inicial) = 3
    /\ ret.coluna.indice = 19
    /\ Value(ret.ws_inserida, 1, 20) = StrV("DATA")
    /\ Value(ret.ws_inserida, 3, 19) = StrV("=COUNTIF('MAR.26'!A:A,BASE!A3)")

----------------------------------------------------------------------------
(* C12, C18: the static formulas of the appended rows                      *)

\* The last row of ws holding any value, 0 when there is none.
LastValueRow(ws) ==
    LET rows == {r \in 1..MaxRow(ws) : \E c \in 1..MaxCol(ws) : ws[r][c] # None}
    IN  IF rows = {} THEN 0 ELSE CHOOSE r \in rows : \A q \in rows : q <= r

\* C12: aplicar_formulas_estaticas writes O, P and DATA only in the rows
\* firstNewRow..last, O = "=N{r}/E{r}" and P = "=E{r}-N{r}"; every other
\* cell, the O, P and DATA cells of the historical rows included, is as
\* before, and the returned count is the number of rows written.
C12_StaticFormulasFrame ==
    pc = "b_fim" =>
      LET a == ret.ws_dinamica
          b == Sheet(base_wb, "BASE")
          first == ret.linha_inicio_append
          last == LastValueRow(a)
          data == MonthBlockEnd(a)
      IN  /\ \A r \in 1..MaxRow(b) : \A c \in 1..MaxCol(b) :
               IF r >= first /\ r <= last /\ c \in {15, 16, data}
               THEN Value(b, r, c) =
                      StrV(CASE c = 15 -> "=N" \o IntToStr(r) \o "/E" \o IntToStr(r)
                             [] c = 16 -> "=E" \o IntToStr(r) \o "-N" \o IntToStr(r)
                             [] OTHER -> "=TEXT(F" \o IntToStr(r) \o ",\"dd/mm/aaaa\")")
               ELSE Value(b, r, c) = Value(a, r, c)
          /\ ret.linhas_novas_estaticas = Cardinality(first..last)

\* Rows 2 and 3 with pasted values in O, P and DATA, firstNewRow = 3: row 2
\* keeps its values, row 3 gets the formulas, one row is counted.
C12_Witness ==
    /\ pc = "b_fim"
    /\ ret.linha_inicio_append = 3
    /\ LastValueRow(ret.ws_dinamica) = 3
    /\ Value(ret.ws_dinamica, 2, 15) = IntV(902)
    /\ Value(ret.ws_dinamica, 3, 15) = IntV(903)
    /\ Value(Sheet(base_wb, "BASE"), 2, 15) = IntV(902)
    /\ Value(Sheet(base_wb, "BASE"), 3, 15) = StrV("=N3/E3")
    /\ Value(Sheet(base_wb, "BASE"), 3, 16) = StrV("=E3-N3")
    /\ ret.linhas_novas_estaticas = 1

\* No row-1 header of ws is exactly "DATA".
SemHeaderData(ws) == \A c \in 1..MaxCol(ws) : Value(ws, 1, c) # StrV("DATA")

\* The headed columns from Q to the sheet's last column, in column order.
HeadedFromQ(ws) ==
    SelectSeq([k \in 1..Max2(MaxCol(ws) - 16, 0) |-> 16 + k],
              LAMBDA c : Truthy(Value(ws, 1, c)))

\* C18: when no row-1 header of BASE is exactly "DATA",
\* aplicar_formulas_estaticas raises before writing any cell, while
\* encontrar_colunas_meses returns normally with the headed columns from Q
\* to the sheet's last column; with a DATA header the former does not raise.
C18_MissingDataHeader ==
    /\ pc \in {"b_fim", "b_erro"} =>
         /\ (pc = "b_erro") = SemHeaderData(ret.ws_dinamica)
         /\ pc = "b_erro" => Sheet(base_wb, "BASE") = ret.ws_dinamica
    /\ (pc # "b_colunas" /\ SemHeaderData(ret.ws_inicial)) =>
         LET cols == HeadedFromQ(ret.ws_inicial)
         IN  /\ Len(ret.colunas_meses) = Len(cols) + (IF Inserida THEN 1 ELSE 0)
             /\ \A k \in 1..Len(cols) :
                  /\ ret.colunas_meses[k].indice = cols[k]
                  /\ ret.colunas_meses[k].nome = StrOf(Value(ret.ws_inicial, 1, cols[k]))

\* Two month columns followed by a column headed "Data": the mapper counts
\* it as a third month column, the static formulas raise and the O cell of
\* the new row 3 stays as it was.
C18_Witness ==
    /\ pc = "b_erro"
    /\ Value(ret.ws_inicial, 1, 19) = StrV("Data")
    /\ Len(ret.colunas_meses) = 4
    /\ ret.colunas_meses[3].nome = "Data"
    /\ ret.linha_inicio_append = 3
    /\ LastValueRow(ret.ws_dinamica) = 3
    /\ Value(Sheet(base_wb, "BASE"), 3, 15) = IntV(903)

----------------------------------------------------------------------------
(* C13: the appender stops at the first empty column A                     *)

\* The rows of column A of ws that hold a value.
RowsWithA(ws) == {r \in 1..MaxRow(ws) : Value(ws, r, 1) # None}

\* The last row of ws with a value in column A; 1 for a sheet without any,
\* whose row 1 is taken to be the header.
LastRowWithA(ws) ==
    IF RowsWithA(ws) = {} THEN 1
    ELSE CHOOSE r \in RowsWithA(ws) : \A q \in RowsWithA(ws) : q <= r

\* The number of source rows from row 2 down to the row before the first
\* one whose column A is empty.
RowsBeforeSentinel(ws) ==
    Cardinality({r \in 2..MaxRow(ws) : \A q \in 2..r : Value(ws, q, 1) # None})

\* C13: copiar_producao_para_base appends the source rows 2, 3, ... in
\* order and stops at the first source row whose column A is empty: the
\* returned count is the number of source rows before that row, the k-th
\* appended row lands at (last BASE row with a column-A value) + k, and
\* column A of BASE holds nothing else new, whatever the source holds below
\* the empty cell.
C13_AppendStopsAtSentinel ==
    pc = "atualizar_base" =>
      LET src == Sheet(parceiro_wb, "Produção")
          a == ret.ws_antes
          b == Sheet(base_wb, "BASE")
          n == RowsBeforeSentinel(src)
          last == LastRowWithA(a)
      IN  /\ ret.linhas_append = n
          /\ \A k \in 1..n : Value(b, last + k, 1) = Value(src, k + 1, 1)
          /\ RowsWithA(b) = RowsWithA(a) \cup ((last + 1)..(last + n))
          /\ \A r \in 1..MaxRow(b) : \A c \in 1..MaxCol(b) :
               (r <= last \/ r > last + n) => Value(b, r, c) = Value(a, r, c)

\* Source rows 2 and 4 hold a column-A value and row 3 does not: one row
\* is appended, below the two data rows of BASE, and row 4 is not.
C13_Witness ==
    /\ pc = "atualizar_base"
    /\ Value(Sheet(parceiro_wb, "Produção"), 2, 1) = IntV(1201)
    /\ Value(Sheet(parceiro_wb, "Produção"), 3, 1) = None
    /\ Value(Sheet(parceiro_wb, "Produção"), 4, 1) = IntV(1401)
    /\ LastRowWithA(ret.ws_antes) = 3
    /\ ret.linhas_append = 1
    /\ Value(Sheet(base_wb, "BASE"), 4, 1) = IntV(1201)
    /\ Value(Sheet(base_wb, "BASE"), 5, 1) = None

----------------------------------------------------------------------------
(* C14: the clone step                                                     *)

\* The month the run in progress, or the last run, was started for.
MesDaExecucao == session_state.target_month

\* The run in progress, or the last run, went past the clone step.
Clonado ==
    \/ pc \in {"limpar", "inserir", "regras", "append", "atualizar_base", "resumo",
               "inadimplentes", "armazenar", "armazenar_nome", "armazenar_processado",
               "fim"}
    \/ pc = "erro" /\ ret.erro # "clonar"

\* C14: once the clone step is done the workbook holds exactly one sheet
\* named target_month, the last one, while the template is still there;
\* right after the step that sheet is a duplicate of the template JAN.26
\* and the other sheets are those of the uploaded file, a sheet of that
\* name in the file being gone; the run aborts, at the validation or at
\* the step itself, when the template is missing.
C14_CloneStep ==
    /\ Clonado =>
         /\ SheetCount(base_wb, MesDaExecucao) = 1
         /\ base_wb[Len(base_wb)].title = MesDaExecucao
         /\ "JAN.26" \in SheetNames(base_wb)
    /\ pc = "limpar" =>
         /\ Sheet(base_wb, MesDaExecucao) = Sheet(base_wb, "JAN.26")
         /\ DelSheet(base_wb, MesDaExecucao) = DelSheet(arquivo_base, MesDaExecucao)
    /\ ret.erro = "clonar" =>
         /\ pc = "erro"
         /\ "JAN.26" \notin SheetNames(base_wb)
         /\ session_state.base_workbook_modificado = ret.saida_antes
    /\ (pc \notin Parado /\ "JAN.26" \notin SheetNames(arquivo_base)) => pc = "carregado"

\* The uploaded file is the output of an earlier run for FEV.26: its sheet
\* FEV.26 holds that run's rows, and after the clone step the one sheet
\* FEV.26 is a copy of the template.
C14_Witness ==
    /\ pc = "limpar"
    /\ MesDaExecucao = "FEV.26"
    /\ "FEV.26" \in SheetNames(arquivo_base)
    /\ Sheet(arquivo_base, "FEV.26") # Sheet(arquivo_base, "JAN.26")
    /\ SheetCount(base_wb, "FEV.26") = 1
    /\ Sheet(base_wb, "FEV.26") = Sheet(base_wb, "JAN.26")

\* The uploaded file has a sheet fev.26, in lower case: it is not deleted,
\* and the duplicate of the template is titled FEV.261, no sheet of the
\* workbook being named FEV.26.
C14_TituloComSufixo ==
    /\ pc = "limpar"
    /\ MesDaExecucao = "FEV.26"
    /\ "fev.26" \in SheetNames(arquivo_base)
    /\ "fev.26" \in SheetNames(base_wb)
    /\ SheetCount(base_wb, "FEV.26") = 0
    /\ base_wb[Len(base_wb)].title = "FEV.261"
    /\ WsMes(base_wb) = Sheet(base_wb, "JAN.26")

\* That run completes and stores its workbook; the summary section finds
\* no sheet FEV.26 in it and no download is offered.
C14_SemDownload ==
    /\ pc = "fim"
    /\ MesDaExecucao = "FEV.26"
    /\ session_state.processado
    /\ "FEV.261" \in SheetNames(session_state.base_workbook_modificado)
    /\ ~DownloadOferecido

----------------------------------------------------------------------------
(* C15: the validation of the required sheets                              *)

RequiredPartner == <<"Parcelas Pagas", "Produção">>

RequiredBase == <<"BASE", "INADIMPLENTES", "JAN.26">>

\* All five required sheets are in the two workbooks.
AllRequiredPresent(pwb, wb) ==
    /\ \A k \in 1..Len(RequiredPartner) : SheetCount(pwb, RequiredPartner[k]) > 0
    /\ \A k \in 1..Len(RequiredBase) : SheetCount(wb, RequiredBase[k]) > 0

\* The message names a required sheet that the workbooks do not hold.
NamesMissingSheet(msg, pwb, wb) ==
    \/ \E k \in 1..Len(RequiredPartner) :
         /\ SheetCount(pwb, RequiredPartner[k]) = 0
         /\ msg = "Aba '" \o RequiredPartner[k] \o "' não encontrada no arquivo PARCEIRO"
    \/ \E k \in 1..Len(RequiredBase) :
         /\ SheetCount(wb, RequiredBase[k]) = 0
         /\ msg = "Aba '" \o RequiredBase[k] \o "' não encontrada no arquivo BASE"

\* C15: validar_abas_necessarias succeeds exactly when the five required
\* sheets are present; when one is missing the message names a missing
\* sheet, the run stops with the BASE workbook as loaded, and what is
\* stored for download is what it was before the run.
C15_RequiredSheets ==
    /\ pc \notin {"ocioso", "carregado"} =>
         /\ ret.valido = AllRequiredPresent(parceiro_wb, ret.carregado)
         /\ (pc = "parado") = ~ret.valido
    /\ pc = "parado" =>
         /\ NamesMissingSheet(ret.mensagem, parceiro_wb, ret.carregado)
         /\ base_wb = ret.carregado
         /\ session_state.base_workbook_modificado = ret.saida_antes
         /\ session_state.processado = (ret.saida_antes # <<>>)

\* A first run on a BASE file without the template: the run stops, naming
\* JAN.26, and nothing is stored.
C15_Witness ==
    /\ pc = "parado"
    /\ ret.mensagem = "Aba 'JAN.26' não encontrada no arquivo BASE"
    /\ "BASE" \in SheetNames(base_wb)
    /\ ~session_state.processado

----------------------------------------------------------------------------
(* C19: the INADIMPLENTES sheet and runs without delinquent rows           *)

\* The rows of 'Parcelas Pagas' marked 'Não' in column M, the rows the
\* month sheet shows under VALIDAÇÃO.
LinhasNao(pwb) ==
    IF SheetCount(pwb, "Parcelas Pagas") = 0 THEN {}
    ELSE LET ws == Sheet(pwb, "Parcelas Pagas")
         IN  {r \in 2..MaxRow(ws) : Value(ws, r, 13) = StrV("Não")}

\* C19: a run fails on the absence of the INADIMPLENTES sheet only when
\* delinquent rows are found; a run whose data hold none does not stop or
\* abort for that sheet.
C19_SheetNeededOnlyWithRows ==
    /\ (pc = "parado" /\ ret.mensagem = "Aba 'INADIMPLENTES' não encontrada no arquivo BASE")
         => LinhasNao(parceiro_wb) # {}
    /\ ret.erro = "inadimplentes" => LinhasNao(parceiro_wb) # {}

----------------------------------------------------------------------------
(* C17: the rewriter given an empty month list                             *)

\* C17: aplicar_formulas_dinamicas does not return normally when the list
\* of month columns is empty.
C17_EmptyMonthListFatal ==
    ~(pc = "aplicada" /\ ret.colunas_meses = <<>>)

----------------------------------------------------------------------------
(* C16: all or nothing                                                     *)

\* A stage of the run in progress, or of the last run, raised.
AlgumaEtapaLevantou == ret.erro # "" \/ ret.capturadas # <<>>

\* C16: a run in which a stage raised, a sub-stage of the RESUMO update
\* included, is not marked as processed and stores no workbook: it never
\* reaches the end of ETAPA 7, and what st.session_state holds after it is
\* what it held before the run.
C16_RaiseEndsInError ==
    /\ pc = "fim" => ~AlgumaEtapaLevantou
    /\ (pc \in {"erro", "fim"} /\ AlgumaEtapaLevantou) =>
         /\ session_state.base_workbook_modificado = ret.saida_antes
         /\ session_state.processado = (ret.saida_antes # <<>>)

\* A run in which atualizar_resumo_ciclo_pmt raised after writing rows 9-17
\* of column A: the final block was not written, and the workbook is
\* stored as processed.
C16_ResumoParcial ==
    /\ pc = "fim"
    /\ ret.capturadas = <<"resumo">>
    /\ ret.col_idx = 1 /\ ret.coluna_alvo = 2
    /\ session_state.processado
    /\ Value(Sheet(session_state.base_workbook_modificado, "RESUMO"), 9, 1)
         = StrV("23/10 a 20/11 - 2025")
    /\ Value(Sheet(session_state.base_workbook_modificado, "RESUMO"), 2, 2) = StrV("fev/26")
    /\ Value(Sheet(session_state.base_workbook_modificado, "RESUMO"), 20, 2) = None

----------------------------------------------------------------------------
(* C20: the RESUMO blocks of one run share a column                        *)

\* The RESUMO stage of the run in progress, or of the last run, was run on
\* a workbook with a RESUMO sheet.
ResumoAtualizado ==
    /\ \/ pc \in {"inadimplentes", "armazenar", "armazenar_nome", "armazenar_processado", "fim"}
       \/ pc = "erro" /\ ret.erro = "inadimplentes"
    /\ "RESUMO" \in SheetNames(base_wb)

\* C20: the column in which atualizar_resumo_ciclo_pmt writes rows 9-18 is
\* the column atualizar_resumo_mes_faturamento returned, in which
\* atualizar_resumo_bloco_final writes rows 20-23.
C20_ResumoBlocksAligned ==
    ResumoAtualizado => ret.col_idx = ret.coluna_alvo

\* A second run for FEV.26 on the output of the first: the label fev/26 is
\* in column C already, the billing block goes to column D and the CICLO
\* PMT block to column C.
C20_SegundaExecucao ==
    /\ pc = "fim"
    /\ ret.execucoes = 2
    /\ MesDaExecucao = "FEV.26"
    /\ "RESUMO" \in SheetNames(ret.carregado)
    /\ Value(Sheet(ret.carregado, "RESUMO"), 2, 3) = StrV("fev/26")
    /\ ret.coluna_alvo = 4
    /\ ret.col_idx = 3
    /\ Value(Sheet(base_wb, "RESUMO"), 20, 4) = StrV("fev/26")
    /\ Value(Sheet(base_wb, "RESUMO"), 9, 4) = None

----------------------------------------------------------------------------
(* C21                                                                     *)

ColunasRotuladas(ws) == {c \in 1..MaxCol(ws) : Value(ws, 2, c) # None}

UltimaRotulada(ws) ==
    CHOOSE c \in ColunasRotuladas(ws) : \A d \in ColunasRotuladas(ws) : d <= c

\* atualizar_resumo_mes_faturamento has returned.
Faturada == pc \in {"s_ciclo", "s_headers", "s_bloco_final", "s_fim", "s_erro"}

\* Column c of w1 is a fresh column put in front of column c of w0.
ColunaInserida(w0, w1, c) ==
    /\ MaxCol(w1) = MaxCol(w0) + 1
    /\ \A r \in 1..MaxRow(w1), col \in 1..MaxCol(w1) :
         /\ col < c => Value(w1, r, col) = Value(w0, r, col)
         /\ col > c => Value(w1, r, col) = Value(w0, r, col - 1)
         /\ (col = c /\ r \notin 2..6) => Value(w1, r, col) = None

\* w1 is w0 but for rows 2-6 of column c.
ColunaReutilizada(w0, w1, c) ==
    /\ MaxCol(w1) = Max2(MaxCol(w0), c)
    /\ \A r \in 1..MaxRow(w1), col \in 1..MaxCol(w1) :
         (col # c \/ r \notin 2..6) => Value(w1, r, col) = Value(w0, r, col)

\* C21: on a sheet with a label in row 2, atualizar_resumo_mes_faturamento
\* returns c, the column after the last one with a value in row 2; it
\* writes into c without inserting when rows 2 and 9 of c are empty and
\* inserts a fresh column at c otherwise; row 2 of c then holds the label of
\* the target month and every label row 2 held before is where it was.
C21_BillingColumn ==
    (Faturada /\ ColunasRotuladas(ret.ws_inicial) # {}) =>
      LET w0 == ret.ws_inicial
          w1 == ret.ws_faturada
          c == UltimaRotulada(w0) + 1
      IN  /\ ret.nova_coluna = c
          /\ IF Value(w0, 2, c) = None /\ Value(w0, 9, c) = None
             THEN ColunaReutilizada(w0, w1, c)
             ELSE ColunaInserida(w0, w1, c)
          /\ Value(w1, 2, c) = StrV(Lower(MesesEng[ParseMes(target_month).mes]) \o "/"
                                      \o SubSeq(target_month, 5, 6))
          /\ \A col \in ColunasRotuladas(w0) : Value(w1, 2, col) = Value(w0, 2, col)

\* A fresh column was inserted in front of the table of rules, right of
\* two labelled months.
C21_Witness ==
    /\ Faturada
    /\ Cardinality(ColunasRotuladas(ret.ws_inicial)) = 3
    /\ ret.nova_coluna = 4
    /\ Value(ret.ws_inicial, 9, 4) = StrV("Regra para Parcelamento")
    /\ Value(ret.ws_faturada, 9, 5) = StrV("Regra para Parcelamento")
    /\ Value(ret.ws_faturada, 2, 4) = StrV("abr/26")
    /\ Value(ret.ws_faturada, 9, 4) = None

\* The free column right of the labelled months was written without an
\* insertion.
C21_Reutilizada ==
    /\ Faturada
    /\ ret.nova_coluna = 3
    /\ MaxCol(ret.ws_inicial) = 3
    /\ MaxCol(ret.ws_faturada) = 3
    /\ Value(ret.ws_faturada, 2, 3) = StrV("dez/27")

----------------------------------------------------------------------------
(* C22                                                                     *)

DoisDigitos == <<"01", "02", "03", "04", "05", "06", "07", "08", "09", "10", "11", "12">>

\* The number of the month and the year of a label MMM.YY.
NumeroDoMes(mes) == CHOOSE m \in 1..12 : MesesEng[m] = SubSeq(mes, 1, 3)

AnoDoMes(mes) == CHOOSE a \in 2000..2099 : NatToStr(a) = "20" \o SubSeq(mes, 5, 6)

\* Day 23 of the month four calendar months before the label, and day 20
\* of the month after that one.
InicioDoCiclo(mes) ==
    IF NumeroDoMes(mes) > 4
    THEN [mes |-> NumeroDoMes(mes) - 4, ano |-> AnoDoMes(mes)]
    ELSE [mes |-> NumeroDoMes(mes) + 8, ano |-> AnoDoMes(mes) - 1]

FimDoCiclo(mes) ==
    IF InicioDoCiclo(mes).mes = 12
    THEN [mes |-> 1, ano |-> InicioDoCiclo(mes).ano + 1]
    ELSE [mes |-> InicioDoCiclo(mes).mes + 1, ano |-> InicioDoCiclo(mes).ano]

InicioStr(mes) ==
    "23/" \o DoisDigitos[InicioDoCiclo(mes).mes] \o "/" \o NatToStr(InicioDoCiclo(mes).ano)

FimStr(mes) ==
    "20/" \o DoisDigitos[FimDoCiclo(mes).mes] \o "/" \o NatToStr(FimDoCiclo(mes).ano)

\* atualizar_resumo_ciclo_pmt has written rows 9-17 of column col_idx.
CicloEscrito ==
    /\ pc \in {"s_headers", "s_bloco_final", "s_fim", "s_erro"}
    /\ ret.col_idx >= 1

\* C22: the cycle written by atualizar_resumo_ciclo_pmt for a label MMM.YY
\* runs from day 23 of the month four calendar months before it to day 20
\* of the following month, across the change of year; the header gives the
\* two days and the year of the first, the formulas of rows 10, 11 and 14
\* the two dates.
C22_CycleWindow ==
    CicloEscrito =>
      LET w == ret.ws_ciclo
          c == ret.col_idx
          ini == InicioStr(target_month)
          fim == FimStr(target_month)
      IN  /\ Value(w, 9, c) = StrV(SubSeq(ini, 1, 5) \o " a " \o SubSeq(fim, 1, 5)
                                     \o " - " \o SubSeq(ini, 7, 10))
          /\ Value(w, 10, c) = StrV("=COUNTIFS(BASE!$H:$H,\">=" \o ini
                                      \o "\",BASE!$H:$H,\"<=" \o fim \o "\")")
          /\ Value(w, 11, c) = StrV("=SUMIFS(BASE!$D:$D,BASE!$H:$H,\">=" \o ini
                                      \o "\",BASE!$H:$H,\"<=" \o fim \o "\")")
          /\ Value(w, 14, c) = StrV("=COUNTIFS('" \o target_month \o "'!R:R,\">=" \o ini
                                      \o "\",'" \o target_month \o "'!R:R,\"<=" \o fim \o "\")")

\* JAN.26: the cycle 23/09/2025 to 20/10/2025.
C22_Witness ==
    /\ CicloEscrito
    /\ target_month = "JAN.26"
    /\ Value(ret.ws_ciclo, 9, ret.col_idx) = StrV("23/09 a 20/10 - 2025")
    /\ Value(ret.ws_ciclo, 10, ret.col_idx)
         = StrV("=COUNTIFS(BASE!$H:$H,\">=23/09/2025\",BASE!$H:$H,\"<=20/10/2025\")")

\* ABR.26: the cycle starts in December 2025 and ends in January 2026.
C22_ViradaNoFim ==
    /\ CicloEscrito
    /\ target_month = "ABR.26"
    /\ Value(ret.ws_ciclo, 9, ret.col_idx) = StrV("23/12 a 20/01 - 2025")
    /\ Value(ret.ws_ciclo, 11, ret.col_idx)
         = StrV("=SUMIFS(BASE!$D:$D,BASE!$H:$H,\">=23/12/2025\",BASE!$H:$H,\"<=20/01/2026\")")

----------------------------------------------------------------------------
(* C23                                                                     *)

\* The last two digits of a year.
DoisUltimos(ano) == SubSeq(NatToStr(ano), 3, 4)

\* The calendar month before the label MMM.YY, written mmm/yy.
MesAnteriorEsperado(mes) ==
    IF NumeroDoMes(mes) = 1
    THEN "dez/" \o DoisUltimos(AnoDoMes(mes) - 1)
    ELSE Lower(MesesEng[NumeroDoMes(mes) - 1]) \o "/" \o DoisUltimos(AnoDoMes(mes))

\* C23: calcular_mes_anterior gives, for each of the twelve abbreviations
\* and each year, the label mmm/yy of the calendar month one month earlier:
\* December of the year before for January, the same year otherwise.  The
\* value is the one written to row 3 of the billing column.
C23_PreviousMonth ==
    Faturada =>
      /\ ret.mes_ref = MesAnteriorEsperado(target_month)
      /\ Value(ret.ws_faturada, 3, ret.nova_coluna) = StrV(MesAnteriorEsperado(target_month))

\* JAN.26 gives dez/25.
C23_Witness ==
    /\ Faturada
    /\ target_month = "JAN.26"
    /\ ret.mes_ref = "dez/25"
    /\ Value(ret.ws_faturada, 3, ret.nova_coluna) = StrV("dez/25")

\* A month other than January keeps its year: OUT.27 gives set/27.
C23_MesmoAno ==
    /\ Faturada
    /\ target_month = "OUT.27"
    /\ ret.mes_ref = "set/27"

----------------------------------------------------------------------------
(* C24                                                                     *)

\* The columns headed DATA in row 1.
ColunasData(ws) == {c \in 1..MaxCol(ws) : Value(ws, 1, c) = StrV("DATA")}

\* A header that is not empty.
Cabecalho(ws, c) == Value(ws, 1, c) # None /\ Value(ws, 1, c) # StrV("")

\* The columns strictly between P and the column headed DATA whose header
\* is not empty.
ColunasDeMes(ws) ==
    {c \in 17..MaxCol(ws) :
       /\ \A d \in ColunasData(ws) : c < d
       /\ Cabecalho(ws, c)}

\* C24: on a ledger with a column headed DATA, encontrar_colunas_meses
\* returns exactly the columns strictly between column 16 and that column
\* whose row-1 header is not empty, in increasing order, each with its
\* header and its letter; a column with an empty header and the DATA column
\* are not returned.
C24_MonthColumns ==
    (pc = "q_fim" /\ ColunasData(Sheet(base_wb, "BASE")) # {}) =>
      LET ws == Sheet(base_wb, "BASE")
          cm == ret.colunas_meses
      IN  /\ {cm[k].indice : k \in 1..Len(cm)} = ColunasDeMes(ws)
          /\ Len(cm) = Cardinality(ColunasDeMes(ws))
          /\ \A k \in 1..(Len(cm) - 1) : cm[k].indice < cm[k + 1].indice
          /\ \A k \in 1..Len(cm) :
               /\ StrV(cm[k].nome) = Value(ws, 1, cm[k].indice)
               /\ cm[k].letra = get_column_letter(cm[k].indice)

\* Q and S are returned, in that order; R, whose header is empty, and the
\* DATA column T are not.
C24_Witness ==
    /\ pc = "q_fim"
    /\ Value(Sheet(base_wb, "BASE"), 1, 18) = None
    /\ Value(Sheet(base_wb, "BASE"), 1, 20) = StrV("DATA")
    /\ Len(ret.colunas_meses) = 2
    /\ ret.colunas_meses[1] = [nome |-> "JAN.26", indice |-> 17, letra |-> "Q"]
    /\ ret.colunas_meses[2] = [nome |-> "FEV.26", indice |-> 19, letra |-> "S"]

----------------------------------------------------------------------------
(* C25                                                                     *)

\* The run stands at ETAPA 5.4 with a workbook that has no RESUMO sheet.
SemResumo == pc = "resumo" /\ "RESUMO" \notin SheetNames(base_wb)

\* The run ended by storing a workbook without a RESUMO sheet, no RESUMO
\* call having been made and no exception caught for that stage.
ConcluidaSemResumo ==
    /\ pc = "fim"
    /\ session_state.processado
    /\ session_state.base_workbook_modificado = base_wb
    /\ "RESUMO" \notin SheetNames(base_wb)
    /\ ret.coluna_alvo = 0
    /\ ret.col_idx = 0
    /\ \A k \in 1..Len(ret.capturadas) : ret.capturadas[k] # "resumo"
    /\ ret.erro = ""

\* The stages from ETAPA 5.4 on, and the stage each hands over to.
EtapaSeguinte(p) ==
    CASE p = "resumo" -> "inadimplentes"
      [] p = "inadimplentes" -> "armazenar"
      [] p = "armazenar" -> "armazenar_nome"
      [] p = "armazenar_nome" -> "armazenar_processado"
      [] p = "armazenar_processado" -> "fim"

\* C25: for a BASE workbook without a RESUMO sheet the step of ETAPA 5.4
\* changes neither the workbook nor what the run has recorded and hands
\* over to the delinquency stage; from there on every stage can be taken
\* (the sheet the delinquency stage writes is in the workbook) and hands
\* over to the next one, none ending the run in error, and with the last
\* one the workbook is stored and the run is marked as processed.  The
\* steps are those of the run: the user stopping it by touching a widget,
\* which leaves the page idle, is not one.
C25_ResumoSkipped ==
    /\ [][(SemResumo /\ pc' # "ocioso")
          => (pc' = "inadimplentes" /\ base_wb' = base_wb /\ ret' = ret)]_vars
    /\ []("RESUMO" \notin SheetNames(base_wb) =>
            /\ pc = "resumo" => ENABLED RResumo
            /\ pc = "inadimplentes" => "INADIMPLENTES" \in SheetNames(base_wb)
            /\ pc = "armazenar" => ENABLED RArmazenarWorkbook
            /\ pc = "armazenar_nome" => ENABLED RArmazenarNome
            /\ pc = "armazenar_processado" => ENABLED RArmazenarProcessado)
    /\ [][(pc \in {"resumo", "inadimplentes", "armazenar", "armazenar_nome",
                   "armazenar_processado"}
            /\ "RESUMO" \notin SheetNames(base_wb) /\ pc' # "ocioso")
          => (pc' = EtapaSeguinte(pc) /\ (pc' = "fim" => ConcluidaSemResumo'))]_vars

\* A run on a ledger without RESUMO that has appended rows to BASE and
\* written delinquent rows has reached its end.
C25_Witness ==
    /\ ConcluidaSemResumo
    /\ "RESUMO" \notin SheetNames(ret.carregado)
    /\ ret.linhas_append > 0
    /\ ret.inadimplentes > 0

----------------------------------------------------------------------------
(* C26                                                                     *)

\* The run passed ETAPA 2 and has left the clone step.
ClonagemFeita ==
    /\ ret.valido
    /\ pc \notin {"ocioso", "carregado", "clonar", "parado"}

\* C26: once a run that passed validation has left the clone step, the
\* step has completed and the template JAN.26 is still in the workbook,
\* whatever the month selected, JAN.26 included.
C26_TemplateSurvivesClone ==
    ClonagemFeita =>
      /\ ret.erro # "clonar"
      /\ "JAN.26" \in SheetNames(base_wb)

\* The month selected is JAN.26: the template was deleted as the sheet of
\* the month and the clone step ended the run.
C26_TemplateDeleted ==
    /\ pc = "erro"
    /\ ret.valido
    /\ ret.erro = "clonar"
    /\ target_month = "JAN.26"
    /\ "JAN.26" \in SheetNames(ret.carregado)
    /\ "JAN.26" \notin SheetNames(base_wb)
    /\ ~session_state.processado

----------------------------------------------------------------------------
(* C27                                                                     *)

\* The rows of BASE written by copiar_producao_para_base in this run.
LinhasAnexadas == ret.new_row..(ret.new_row + ret.linhas_append - 1)

\* Sub-etapa 5.3 has returned.
BaseAtualizada == pc = "resumo" /\ ret.erro = ""

\* Row r of ws holds the static formulas of O, P and DATA.
TemEstaticas(ws, r) ==
    /\ Value(ws, r, 15) = StrV("=N" \o NatToStr(r) \o "/E" \o NatToStr(r))
    /\ Value(ws, r, 16) = StrV("=E" \o NatToStr(r) \o "-N" \o NatToStr(r))
    /\ \E c \in ColunasData(ws) :
         Value(ws, r, c) = StrV("=TEXT(F" \o NatToStr(r) \o ",\"dd/mm/aaaa\")")

\* C27: when Sub-etapa 5.3 has returned, every row that Sub-etapa 5.2
\* appended to BASE holds the static formulas O, P and DATA, also when BASE
\* ended with rows whose column A was empty while another column was not.
C27_AppendedRowsGetStatics ==
    BaseAtualizada =>
      \A r \in LinhasAnexadas : TemEstaticas(Sheet(base_wb, "BASE"), r)

\* BASE ended with a row whose column A was empty and whose O, P and DATA
\* cells held values; the first row of Produção was written on that row,
\* left of linha_inicio_append, and has no static formula.
C27_LinhaSemFormulas ==
    /\ BaseAtualizada
    /\ ret.linhas_append = 2
    /\ ret.new_row = 3
    /\ ret.linha_inicio_append = 4
    /\ Value(ret.ws_antes, 3, 1) = None
    /\ Value(ret.ws_antes, 3, 15) = IntV(903)
    /\ Value(Sheet(base_wb, "BASE"), 3, 1) = IntV(1201)
    /\ Value(Sheet(base_wb, "BASE"), 3, 15) = IntV(903)
    /\ TemEstaticas(Sheet(base_wb, "BASE"), 4)
    /\ ret.linhas_novas_estaticas = 1

----------------------------------------------------------------------------
(* C28                                                                     *)

\* Row r of the month sheet holds the billed-month label in N and the
\* disbursement-date lookup in O.
TemDerivados(ws, r) ==
    /\ Value(ws, r, 14) = StrV(Lower(SubSeq(target_month, 1, 3)) \o "-"
                                 \o SubSeq(target_month, 5, 6))
    /\ Value(ws, r, 15) = StrV("=VLOOKUP(A" \o NatToStr(r) \o ",'BASE'!A:H,8,0)")

\* C28: after the month-sheet stage the count linhas_n_o equals the number
\* of rows copied from 'Parcelas Pagas', and each copied row holds N and O,
\* also when a copied row has an empty column A and other cells filled.
C28_CopiedRowsGetDerived ==
    pc = "append" =>
      /\ ret.resultado.linhas_n_o = ret.linhas_copiadas
      /\ \A r \in 2..(ret.linhas_copiadas + 1) :
           TemDerivados(Sheet(base_wb, target_month), r)

\* Three rows were copied, the second with an empty column A: the first
\* alone received N and O.
C28_LinhasSemDerivados ==
    /\ pc = "append"
    /\ ret.linhas_copiadas = 3
    /\ ret.resultado.linhas_n_o = 1
    /\ Value(Sheet(base_wb, target_month), 3, 1) = None
    /\ Value(Sheet(base_wb, target_month), 3, 2) # None
    /\ Value(Sheet(base_wb, target_month), 4, 1) = IntV(3)
    /\ TemDerivados(Sheet(base_wb, target_month), 2)
    /\ Value(Sheet(base_wb, target_month), 4, 14) = None
    /\ Value(Sheet(base_wb, target_month), 4, 15) = None

----------------------------------------------------------------------------
(* C29                                                                     *)

\* The starts of the cell references of the text s: a run of upper-case
\* letters, not preceded by a letter, followed by a digit.
Referencias(s) ==
    {p \in 1..Len(s) : MatchAt(s, p) /\ (p = 1 \/ ~IsUpper(At(s, p - 1)))}

\* The row number of the reference of s that starts at p.
LinhaDaReferencia(s, p) ==
    StrToNat(SubSeq(s, RunEnd(s, p, UpperChars) + 1,
                    RunEnd(s, RunEnd(s, p, UpperChars) + 1, DigitChars)))

\* Every cell reference of the text s is to row r.
SoLinha(s, r) == \A p \in Referencias(s) : LinhaDaReferencia(s, p) = r

\* C29: after aplicar_formulas_dinamicas, the formulas of L, M and N of
\* every data row r refer to cells of row r only, whatever the columns the
\* row-2 templates refer to.
C29_RowReferencesRetargeted ==
    Rewrote =>
      \A r \in 2..LastDataRow(ret.ws_antes) : \A c \in 12..14 :
        Value(Sheet(base_wb, "BASE"), r, c).t = "str"
          => SoLinha(Value(Sheet(base_wb, "BASE"), r, c).s, r)

\* The template of L reads E2 and A2: row 3 was given A3 and still
\* reads E2.
C29_ReferenciaNaoAjustada ==
    /\ Rewrote
    /\ LastDataRow(ret.ws_antes) >= 3
    /\ NewMonth = "FEV.26"
    /\ Value(ret.ws_antes, 2, 12)
         = StrV("=IF(OR(E2>0,NOT(ISERROR(VLOOKUP(A2,'JAN.26'!A:A,1,0)))),\"Sim\",\"Não\")")
    /\ Value(Sheet(base_wb, "BASE"), 3, 12)
         = StrV("=IF(OR(E2>0,NOT(ISERROR(VLOOKUP(A3,'JAN.26'!A:A,1,0))),"
                  \o "NOT(ISERROR(VLOOKUP(A3,'FEV.26'!A:A,1,0)))),\"Sim\",\"Não\")")

\* With the canonical chains, which read column A only, every reference of
\* row 3 is to row 3.
C29_SoColunaA ==
    /\ Rewrote
    /\ LastDataRow(ret.ws_antes) >= 3
    /\ TemplateBefore(12) = FormulaL(<<"JAN.26">>)
    /\ NewMonth = "FEV.26"
    /\ \A c \in 12..14 : SoLinha(Value(Sheet(base_wb, "BASE"), 3, c).s, 3)
    /\ Referencias(Value(Sheet(base_wb, "BASE"), 3, 12).s) # {}

----------------------------------------------------------------------------
(* C30                                                                     *)

\* The last run has completed and the download section is rendered: the
\* month of the run is the one stored by ETAPA 1, its workbook the one
\* stored by ETAPA 7.
RunConcluida == pc = "fim" /\ DownloadOferecido

\* C30: after a completed run the workbook offered for download is the
\* result of the month the run processed, and the suggested file name
\* embeds that month, also after the month selector was changed without
\* reprocessing.
C30_FilenameEmbedsProcessedMonth ==
    RunConcluida =>
      /\ session_state.target_month
           \in SheetNames(session_state.base_workbook_modificado)
      /\ Contains(nome_saida, "_" \o session_state.target_month \o "_")

\* The run processed FEV.26 and the selector was moved to MAR.26: the
\* workbook offered has the sheet FEV.26 and no sheet MAR.26, and the
\* file name is BASE_MAR.26_processado.xlsx.
C30_NomeDeOutroMes ==
    /\ RunConcluida
    /\ session_state.target_month = "FEV.26"
    /\ target_month = "MAR.26"
    /\ "FEV.26" \in SheetNames(session_state.base_workbook_modificado)
    /\ "MAR.26" \notin SheetNames(session_state.base_workbook_modificado)
    /\ nome_saida = "BASE_MAR.26_processado.xlsx"

\* Right after the run, with the selector untouched, the name embeds the
\* month processed.
C30_NomeDoMesProcessado ==
    /\ RunConcluida
    /\ session_state.target_month = "FEV.26"
    /\ target_month = "FEV.26"
    /\ nome_saida = "BASE_FEV.26_processado.xlsx"

=============================================================================
